---- MODULE Spec2Model ----
(***************************************************************************)
(* Model of the Wizzair schedule harvester of mossina:                     *)
(*   src/src/scraper/wizzair/schedules.py  (selector, pairer, parser,      *)
(*                                          worker, writer, orchestrator)  *)
(*   src/src/scraper/wizzair/api.py        (retrying client)               *)
(*   src/src/db.py                         (schema: schedules, fares)      *)
(*                                                                         *)
(* The module holds several specifications over one list of variables:     *)
(*   SpecPair     _pair_routes applied to bounded route lists              *)
(*   SpecStale    route selection of scrape_schedules / _stale_routes      *)
(*   SpecRetry    WizzairSession.post or .get calls on one session object  *)
(*   Spec         one crawl run: orchestrator, workers, write queue,       *)
(*                writer thread                                            *)
(*   LiveSpec     Spec with the fairness of the thread scheduler           *)
(*   SpecHarvest  repeated harvest runs against the schedules/fares tables *)
(*   SpecThrottle the requests of the workers through the _throttle gate   *)
(*   SpecFault    Spec with a KeyboardInterrupt of the main thread          *)
(*                (src/scrape.py) or a store statement that raises         *)
(*   SpecPlan     the windows and chunks scrape_schedules plans            *)
(*   SpecSession  the sessions of the workers of one run                   *)
(*   SpecStore    one upsert into the schedules table                      *)
(*   SpecParse    a worker parsing one response record by record           *)
(* A specification leaves the variables of the other parts at their idle   *)
(* values.                                                                 *)
(***************************************************************************)
EXTENDS Integers, Sequences, FiniteSets, TLC

\* ------------------------------------------------------------------ bounds
\* Airport codes are modelled by 1..NAirports, ordered as the IATA strings are.
NAirports == 3
\* Longest route list handed to the pairer.
MaxRoutes == 3
\* Largest freshness threshold (days_fresh) tried; instants span 0..MaxFresh+1 days.
MaxFresh == 1
\* Most rows of the routes table / of the schedules table in the selector's inputs.
MaxRouteRows == 2
MaxSchedRows == 2
\* A crawl run: most pairs selected, most windows (num_windows), most workers
\* asked for (workers).
MaxPairs == 2
MaxWindows == 1
MaxWorkers == 2
\* Most tasks (pairs x windows) of a crawl run.
MaxTasks == 2
\* Capacity of the write queue in the model.  The program's queue is
\* queue.Queue(maxsize=200) (schedules.py:254); the model keeps the same
\* blocking put/get with a capacity small enough to fill.
QueueCap == 1
\* Harvest runs in a row, and most departure times listed by one flight.
MaxRuns == 2
MaxDepartures == 2
\* The throttle: the last instant of the clock and the most requests recorded.
MaxClock == 6
MaxSends == 3
\* Most calls made one after the other on one session object.
MaxCalls == 2
\* Most requests.Session objects made during one run, the probe's included.
MaxObjects == 4
\* One response parsed record by record: most flight entries of a list and
\* most departureDates of a flight entry.
MaxParseFlights == 2
MaxParseDeps == 2
\* The plan of a run: the last day utcnow() can fall on, the most windows, the
\* most pairs and the most workers asked for.
MaxStartDay == 1
MaxPlanWindows == 3
MaxPlanPairs == 5
MaxPlanWorkers == 3
\* Most rows of the schedules table before an upsert.
MaxStoreRows == 2

VARIABLES
    \* --- pairer (SpecPair)
    pr_pc,        \* "input" | "done"
    pr_routes,    \* the argument: a list of directed routes <<a, b>>
    pr_pairs,     \* the returned list of pairs
    \* --- route selection of scrape_schedules (SpecStale)
    st_pc,         \* "start" | "selected" | "planned" | "nothing"
    st_routesTbl,  \* table routes, in rowid order: rows [origin, destination, airline]
    st_sched,      \* table schedules: rows [origin, destination, airline, scraped_at, instant]
    st_now,        \* datetime.utcnow() of the call
    st_days_fresh, \* argument days_fresh
    st_limit,      \* argument limit (0 stands for None)
    st_routes,     \* the selected routes, a list of <<origin, destination>>
    st_pairs,      \* pairs after _pair_routes and the limit
    \* --- one client call, WizzairSession.post / .get (SpecRetry)
    rq_pc,         \* "call" | "loop" | "returned" | "raised"
    rq_method,     \* "post" | "get"
    rq_api_base,   \* self._api_base: "none" | "base"
    rq_page,       \* what the homepage holds when discovery fetches it
    rq_session,    \* self._session: 0 for None, else the number of the Session object
    rq_sent_on,    \* the Session object the last request was sent on (0: none sent)
    rq_attempt,    \* the loop variable attempt
    rq_sent,       \* requests sent by this call
    rq_status,     \* the last response: a status code, "exc", or "none"
    rq_only429,    \* every response of this call so far was a 429
    rq_slept,      \* seconds slept after the last response of this call (0: none)
    rq_result,     \* "pending" | "json" | "None"
    rq_calls,      \* calls begun on this session object, this one included
    rq_prev,       \* how the call before this one ended: "none" | "json" | "None" | "failed" | "raised"
    \* --- one crawl run of scrape_schedules (Spec, LiveSpec)
    o_pc,          \* orchestrator: "start" | "submit" | "pool" | "sentinel" | "join"
                   \*               | "done" | "raised" | "interrupted"
    n_pairs,       \* len(pairs); the pairs are numbered 1..n_pairs
    num_windows,   \* argument num_windows
    workers,       \* argument workers
    n_workers,     \* min(workers, len(pairs))
    w_pc,          \* worker i: "unstarted" | "fetch" | "put" | "finish" | "done" | "crashed"
    w_pos,         \* worker i: [k, win]: position in my_pairs and in windows
    w_batch,       \* worker i: the batch it is about to put
    local_errors,  \* worker i: local_errors
    write_q,       \* the write queue, oldest item first
    wr_pc,         \* writer thread: "unstarted" | "running" | "midbatch" | "exited"
                   \*                | "failed"
    wr_starts,     \* writer threads started in this run
    pg_pc,         \* progress thread: "unstarted" | "polling" | "exited"
    batch_sched,   \* writer: batch_sched
    batch_fare,    \* writer: batch_fare
    counters,      \* the shared counters dict
    db_open,       \* tasks whose rows are written in the open transaction
    db_committed,  \* tasks whose rows are committed
    db_log,        \* every store statement of the run: [thread, op, writer_running]
    enqueued,      \* tasks whose batch was put on the write queue
    attempted,     \* tasks whose request a worker has made
    n_exhausted,   \* tasks whose post returned None after its last attempt
    put_rows,      \* rows of all batches put on the queue: [sched, fare]
    \* --- repeated harvest runs against the store (SpecHarvest)
    hv_pc,         \* "idle" (no run going on) | "running"
    hv_run,        \* runs started so far
    hv_routesTbl,  \* table routes, in rowid order
    hv_up,         \* upstream timetable: directed route -> list of flights
    hv_down,       \* the upstream answers the timetable request with no data
    hv_now,        \* datetime.utcnow() of the run
    hv_days,       \* days_fresh of the run
    hv_zero,       \* every run so far had days_fresh = 0
    hv_todo,       \* pairs of the run not fetched yet
    hv_sched,      \* table schedules
    hv_fare,       \* table fares
    hv_ids,        \* the next rowid of each table (AUTOINCREMENT)
    hv_prev,       \* schedule keys and row count when the run began
    hv_priced,     \* priced departures parsed so far, all runs
    \* --- the shared throttle and the requests of the workers (SpecThrottle)
    th_clock,      \* time.time(), in quarter seconds
    th_lock,       \* _throttle_lock: the worker holding it, or -1
    th_last,       \* _last_request_time
    th_pc,         \* worker i: "call" | "locked" | "sleep" | "stamp" | "send" | "backoff"
    th_wake,       \* worker i: the time its time.sleep is over
    th_sends,      \* the requests sent: [w, t], in the order sent
    \* --- the sessions of the workers of one run (SpecSession)
    se_pc,         \* worker i: "off" | "idle" (between two post calls) | "loop" | "done"
    se_session,    \* worker i: self._session, 0 for None, else a requests.Session object
    se_api_base,   \* worker i: self._api_base
    se_shared,     \* shared_api_base, what the probe discovered
    se_obj,        \* the requests.Session objects: [cookie, header]
    se_made,       \* requests.Session objects made so far
    se_discoveries,\* requests of the homepage made by _discover_api during the run
    \* --- the plan of a run: windows and chunks (SpecPlan)
    pl_pc,         \* "off" | "start" | "planned"
    pl_now,        \* datetime.utcnow()
    pl_num_windows,\* argument num_windows
    pl_pairs,      \* the selected pairs, a list
    pl_workers,    \* argument workers
    pl_windows,    \* the list windows
    pl_chunks,     \* the list chunks
    \* --- one upsert into the schedules table (SpecStore)
    sk_pc,         \* "off" | "input" | "done"
    sk_before,     \* table schedules before the statement
    sk_row,        \* the row of the statement
    sk_tbl,        \* table schedules
    \* --- interrupt and store failure during a crawl run (SpecFault)
    ft_pc,         \* main after KeyboardInterrupt: "none" | "shutdown" | "handler"
                   \*                              | "summary" | "reported" | "closed"
    ft_queued,     \* tasks whose batch was on the write queue when the interrupt came
    ft_item,       \* writer: the item it is in the middle of
    ft_part_open,  \* tasks with only a part of their rows in the open transaction
    ft_part_committed, \* tasks with only a part of their rows committed
    \* --- a worker parsing one response, record by record (SpecParse)
    pa_pc,         \* "off" | "flight" | "dep" | "put" | "next" | "raised"
    pa_dir,        \* 1 in _parse_flights(outboundFlights), 2 in _parse_flights(returnFlights)
    pa_flights,    \* entries of the list taken by "for flight in flights" so far
    pa_deps,       \* entries of departureDates taken by "for dep_dt in dep_dates"
    pa_priced,     \* price is not None for the flight entry at hand
    pa_sched,      \* schedule rows parsed from the response so far
    pa_fare,       \* fare rows parsed from the response so far
    pa_q           \* the items put on the write queue

pairVars == <<pr_pc, pr_routes, pr_pairs>>
staleVars == <<st_pc, st_routesTbl, st_sched, st_now, st_days_fresh, st_limit,
               st_routes, st_pairs>>

retryVars == <<rq_pc, rq_method, rq_api_base, rq_page, rq_session, rq_sent_on,
               rq_attempt, rq_sent, rq_status, rq_only429, rq_slept, rq_result,
               rq_calls, rq_prev>>

crawlVars == <<o_pc, n_pairs, num_windows, workers, n_workers, w_pc, w_pos, w_batch,
               local_errors, write_q, wr_pc, wr_starts, pg_pc, batch_sched, batch_fare,
               counters, db_open, db_committed, db_log, enqueued, attempted,
               n_exhausted, put_rows>>

harvestVars == <<hv_pc, hv_run, hv_routesTbl, hv_up, hv_down, hv_now, hv_days, hv_zero,
                 hv_todo, hv_sched, hv_fare, hv_ids, hv_prev, hv_priced>>

throttleVars == <<th_clock, th_lock, th_last, th_pc, th_wake, th_sends>>

sessionVars == <<se_pc, se_session, se_api_base, se_shared, se_obj, se_made,
                 se_discoveries>>

planVars == <<pl_pc, pl_now, pl_num_windows, pl_pairs, pl_workers, pl_windows, pl_chunks>>

storeVars == <<sk_pc, sk_before, sk_row, sk_tbl>>

faultVars == <<ft_pc, ft_queued, ft_item, ft_part_open, ft_part_committed>>

parseVars == <<pa_pc, pa_dir, pa_flights, pa_deps, pa_priced, pa_sched, pa_fare, pa_q>>

vars == <<pairVars, staleVars, retryVars, crawlVars, harvestVars, throttleVars,
          sessionVars, planVars, storeVars, faultVars, parseVars>>

\* ----------------------------------------------------------------- helpers
Min(a, b) == IF a <= b THEN a ELSE b
Max(a, b) == IF a >= b THEN a ELSE b

Range(s) == {s[i] : i \in 1..Len(s)}

\* Sequences over S of length at most n, without repeated elements.
RECURSIVE DistinctSeqs(_, _)
DistinctSeqs(S, n) ==
    IF n = 0 THEN {<<>>}
    ELSE LET shorter == DistinctSeqs(S, n - 1)
         IN  shorter \cup
             {Append(s, x) : <<s, x>> \in
                 {<<s, x>> \in shorter \X S : Len(s) = n - 1 /\ x \notin Range(s)}}

Airports == 1..NAirports
\* A directed route joins two different airports.
DirectedRoutes == {r \in Airports \X Airports : r[1] # r[2]}

\* Mutant of PairKey: the key keeps the direction, so A->B and B->A differ.
PairKeyDirected(a, b) == <<a, b>>

\* ================================================================== pairer
\* key = (min(a, b), max(a, b))                         schedules.py:58
PairKey(a, b) == <<Min(a, b), Max(a, b)>>

\* The for-loop of _pair_routes from element i on, with its seen set and
\* its pairs list.                                      schedules.py:55-63
RECURSIVE PairLoop(_, _, _, _)
PairLoop(routes, i, seen, pairs) ==
    IF i > Len(routes) THEN pairs
    ELSE LET a == routes[i][1]
             b == routes[i][2]
             key == PairKey(a, b)
         IN  IF key \in seen
             THEN PairLoop(routes, i + 1, seen, pairs)
             ELSE PairLoop(routes, i + 1, seen \cup {key}, Append(pairs, <<a, b>>))

\* Mutant of _pair_routes: the loop appends key instead of (a, b).
PairRoutesAppendKey(routes) ==
    LET p == PairLoop(routes, 1, {}, <<>>)
    IN  [j \in 1..Len(p) |-> PairKey(p[j][1], p[j][2])]

\* Mutant of _pair_routes: the loop misses the first route.
PairRoutesSkipFirst(routes) == PairLoop(routes, 2, {}, <<>>)

_pair_routes(routes) == PairLoop(routes, 1, {}, <<>>)

PairIdle == pr_pc = "idle" /\ pr_routes = <<>> /\ pr_pairs = <<>>

PairStart ==
    /\ pr_pc = "input"
    /\ pr_routes \in DistinctSeqs(DirectedRoutes, MaxRoutes)
    /\ pr_pairs = <<>>

\* pairs = _pair_routes(routes)                         schedules.py:221
PairCall ==
    /\ pr_pc = "input"
    /\ pr_pairs' = _pair_routes(pr_routes)
    /\ pr_pc' = "done"
    /\ UNCHANGED pr_routes
    /\ UNCHANGED <<staleVars, retryVars, crawlVars, harvestVars, throttleVars,
                    sessionVars, planVars, storeVars, faultVars, parseVars>>

\* The two endpoints of a route or pair, without direction.
Ends(r) == {r[1], r[2]}
UndirectedEnds(routes) == {Ends(routes[i]) : i \in 1..Len(routes)}
\* The reverse of every route of the list is in the list.
ClosedUnderReversal(routes) ==
    \A i \in 1..Len(routes) : <<routes[i][2], routes[i][1]>> \in Range(routes)

\* C9 as stated: for any set of directed routes the pairer returns at most
\* ceil(directed_count / 2) pairs.  Violated: three routes out of one airport
\* have three different endpoint sets and give three pairs.
C9_SizeAtMostHalf ==
    pr_pc = "done" => Len(pr_pairs) <= (Len(pr_routes) + 1) \div 2

\* C9 amended: the number of output pairs is the number of distinct undirected
\* endpoint sets of the input, hence at most directed_count; it is
\* directed_count / 2 when the reverse of every input route is in the input too.
C9_SizeIsUndirectedCount ==
    pr_pc = "done" =>
        /\ Len(pr_pairs) = Cardinality(UndirectedEnds(pr_routes))
        /\ Len(pr_pairs) <= Len(pr_routes)
        /\ ClosedUnderReversal(pr_routes) => 2 * Len(pr_pairs) = Len(pr_routes)

\* Two of three routes are each other's reverse: two pairs come out of three.
C9_Witness ==
    /\ pr_pc = "done"
    /\ Len(pr_routes) = 3
    /\ Len(pr_pairs) = 2
    /\ \E i, j \in 1..3 : i # j /\ pr_routes[i] = <<pr_routes[j][2], pr_routes[j][1]>>

\* C10: every input route is covered by exactly one output pair with the same
\* two endpoints, and no two output pairs have the same endpoint set.
C10_CoverageAndDedup ==
    pr_pc = "done" =>
        /\ \A i \in 1..Len(pr_routes) :
              Cardinality({j \in 1..Len(pr_pairs) :
                              Ends(pr_pairs[j]) = Ends(pr_routes[i])}) = 1
        /\ \A j, k \in 1..Len(pr_pairs) :
              Ends(pr_pairs[j]) = Ends(pr_pairs[k]) => j = k

\* A route, its reverse and a third route were paired.
C10_Witness ==
    /\ pr_pc = "done"
    /\ \E i, j \in 1..Len(pr_routes) :
          /\ i < j
          /\ pr_routes[j] = <<pr_routes[i][2], pr_routes[i][1]>>
    /\ Len(pr_pairs) = 2

\* C11 as stated: every output pair is in canonical form (min(a,b), max(a,b)).
\* Violated: the route B->A coming first gives the pair (B,A).
C11_PairsCanonical ==
    pr_pc = "done" => \A j \in 1..Len(pr_pairs) : pr_pairs[j][1] < pr_pairs[j][2]

\* C11 amended: every output pair is, unchanged, the first input route with its
\* two endpoints; so routes A->B and B->A alone give exactly one pair, the one
\* of the two that comes first in the input.
C11_PairIsFirstRoute ==
    pr_pc = "done" =>
        /\ \A j \in 1..Len(pr_pairs) :
              \E i \in 1..Len(pr_routes) :
                  /\ pr_pairs[j] = pr_routes[i]
                  /\ \A k \in 1..(i - 1) : Ends(pr_routes[k]) # Ends(pr_routes[i])
        /\ (Len(pr_routes) = 2 /\ pr_routes[2] = <<pr_routes[1][2], pr_routes[1][1]>>)
              => pr_pairs = <<pr_routes[1]>>

\* The input was B->A, A->B with A < B, and the pair that came out is (B,A).
C11_Witness ==
    /\ pr_pc = "done"
    /\ Len(pr_routes) = 2
    /\ pr_routes[1][1] > pr_routes[1][2]
    /\ pr_routes[2] = <<pr_routes[1][2], pr_routes[1][1]>>
    /\ pr_pairs = <<pr_routes[1]>>

\* ====================================================== stale-route selector
AIRLINE == "W6"
OtherAirline == "FR"

\* An instant of the clock: whole days and the microseconds within the day's
\* last second.  datetime.isoformat() writes an instant as zero-padded fields
\* from the year down to the second, and appends ".ffffff" only when the
\* microsecond is not 0; the fields down to the second are modelled by one
\* two-digit field.
Micros == {0, 1}
Days == 0..(MaxFresh + 1)
Instants == [day : Days, us : Micros]

\* Character codes of "." and of the digits.
Dot == 46
DigitChar(d) == 48 + d

RECURSIVE ZeroPad(_, _)
ZeroPad(n, width) ==
    IF width = 0 THEN <<>>
    ELSE Append(ZeroPad(n \div 10, width - 1), DigitChar(n % 10))

\* datetime.isoformat()                     schedules.py:36, schedules.py:232
isoformat(t) ==
    ZeroPad(t.day, 2) \o (IF t.us = 0 THEN <<>> ELSE <<Dot>> \o ZeroPad(t.us, 6))

\* SQLite's comparison of two TEXT values (BINARY collation): bytewise, a
\* proper prefix is smaller.                            schedules.py:41, 47
TextLess(s, t) ==
    \E i \in 1..(Min(Len(s), Len(t)) + 1) :
        /\ \A j \in 1..(i - 1) : s[j] = t[j]
        /\ \/ i <= Len(s) /\ i <= Len(t) /\ s[i] < t[i]
           \/ i = Len(s) + 1 /\ i <= Len(t)

\* datetime.utcnow() - timedelta(days=days_fresh)                schedules.py:36
MinusDays(t, days) == [day |-> t.day - days, us |-> t.us]

\* Mutant of LastScraped: the subquery does not filter on the airline.
LastScrapedAnyAirline(sched, origin, destination) ==
    LET mine == {x.scraped_at : x \in
                    {y \in sched : y.origin = origin /\ y.destination = destination}}
    IN  {m \in mine : \A o \in mine : ~TextLess(m, o)}

\* The subquery: MAX(scraped_at) of the airline's schedule rows of one route,
\* as the set of values that are maximal (empty: no row, s.last IS NULL).
\*                                                        schedules.py:40-45
LastScraped(sched, origin, destination) ==
    LET mine == {x.scraped_at : x \in
                    {y \in sched : /\ y.airline = AIRLINE
                                   /\ y.origin = origin
                                   /\ y.destination = destination}}
    IN  {m \in mine : \A o \in mine : ~TextLess(m, o)}

\* SELECT origin, destination of the rows kept by the WHERE clause (a list
\* in rowid order), in table order.
SelectRows(kept) ==
    [i \in 1..Len(kept) |-> <<kept[i].origin, kept[i].destination>>]

\* _stale_routes(conn, days_fresh)                            schedules.py:34-50
_stale_routes(routesTbl, sched, now, days_fresh) ==
    LET cutoff == isoformat(MinusDays(now, days_fresh))
        stale(r) ==
            /\ r.airline = AIRLINE
            /\ LET last == LastScraped(sched, r.origin, r.destination)
               IN  last = {} \/ \E m \in last : TextLess(m, cutoff)
    IN  SelectRows(SelectSeq(routesTbl, stale))

\* SELECT origin, destination FROM routes WHERE airline = ?  schedules.py:212-215
AllRoutes(routesTbl) ==
    LET mine(r) == r.airline = AIRLINE
    IN  SelectRows(SelectSeq(routesTbl, mine))

\* Mutant of SelectRoutes: threshold 0 goes through the staleness query too.
SelectRoutesAlwaysStale(routesTbl, sched, now, days_fresh) ==
    _stale_routes(routesTbl, sched, now, days_fresh)

\* The branch on days_fresh at the start of scrape_schedules. schedules.py:209-215
SelectRoutes(routesTbl, sched, now, days_fresh) ==
    IF days_fresh > 0 THEN _stale_routes(routesTbl, sched, now, days_fresh)
    ELSE AllRoutes(routesTbl)

\* pairs[:limit] when limit is truthy                       schedules.py:223-224
ApplyLimit(pairs, limit) ==
    IF limit # 0 THEN SubSeq(pairs, 1, Min(limit, Len(pairs))) ELSE pairs

RouteRows == [origin : 1..2, destination : 1..2, airline : {AIRLINE, OtherAirline}]
KnownRouteRows ==
    {r \in RouteRows : r.origin # r.destination /\ (r.airline = AIRLINE \/ r.origin = 1)}
SchedRowOf(o, d, al, t) ==
    [origin |-> o, destination |-> d, airline |-> al,
     scraped_at |-> isoformat(t), instant |-> t]
SchedRows ==
    {SchedRowOf(r.origin, r.destination, r.airline, t) : r \in KnownRouteRows, t \in Instants}

RECURSIVE SubsetsUpTo(_, _)
SubsetsUpTo(S, n) ==
    IF n = 0 THEN {{}}
    ELSE LET smaller == SubsetsUpTo(S, n - 1)
         IN  smaller \cup {T \cup {x} : <<T, x>> \in smaller \X S}

StaleIdle ==
    /\ st_pc = "idle" /\ st_routesTbl = <<>> /\ st_sched = {}
    /\ st_now = [day |-> 0, us |-> 0] /\ st_days_fresh = 0 /\ st_limit = 0
    /\ st_routes = <<>> /\ st_pairs = <<>>

\* The store before a call of scrape_schedules: any routes and schedule rows.
StaleStart ==
    /\ st_pc = "start"
    /\ st_routesTbl \in DistinctSeqs(KnownRouteRows, MaxRouteRows)
    /\ st_sched \in SubsetsUpTo(SchedRows, MaxSchedRows)
    /\ st_now = [day |-> 0, us |-> 0] /\ st_days_fresh = 0 /\ st_limit = 0
    /\ st_routes = <<>> /\ st_pairs = <<>>

\* scrape_schedules: the selection of the routes.           schedules.py:209-215
StaleSelect ==
    /\ st_pc = "start"
    /\ \E now \in {t \in Instants : t.day = MaxFresh + 1},
          days_fresh \in 0..MaxFresh, limit \in 0..1 :
          /\ st_now' = now
          /\ st_days_fresh' = days_fresh
          /\ st_limit' = limit
          /\ st_routes' = SelectRoutes(st_routesTbl, st_sched, now, days_fresh)
    /\ st_pc' = "selected"
    /\ UNCHANGED <<st_routesTbl, st_sched, st_pairs>>
    /\ UNCHANGED <<pairVars, retryVars, crawlVars, harvestVars, throttleVars,
                    sessionVars, planVars, storeVars, faultVars, parseVars>>

\* scrape_schedules: pairing, limit, and the early return.  schedules.py:221-229
StalePlan ==
    /\ st_pc = "selected"
    /\ st_pairs' = ApplyLimit(_pair_routes(st_routes), st_limit)
    /\ st_pc' = IF st_pairs' = <<>> THEN "nothing" ELSE "planned"
    /\ UNCHANGED <<st_routesTbl, st_sched, st_now, st_days_fresh, st_limit, st_routes>>
    /\ UNCHANGED <<pairVars, retryVars, crawlVars, harvestVars, throttleVars,
                    sessionVars, planVars, storeVars, faultVars, parseVars>>

\* The routes table's routes of the source, and a route's stored schedule rows.
KnownRoutes ==
    {<<r.origin, r.destination>> : r \in {x \in Range(st_routesTbl) : x.airline = AIRLINE}}
StoredRows(route) ==
    {x \in st_sched : /\ x.airline = AIRLINE
                      /\ x.origin = route[1] /\ x.destination = route[2]}
\* now - t > days, on the clock (not on the written text).
OlderThan(t, now, days) ==
    \/ t.day + days < now.day
    \/ t.day + days = now.day /\ t.us < now.us

\* C7: with a threshold greater than 0 the selector returns a known route of the
\* source if and only if the route has no stored schedule row or its most recent
\* fetch time T0 has now - T0 > threshold.
C7_StaleIffOlder ==
    (st_pc \in {"selected", "planned", "nothing"} /\ st_days_fresh > 0) =>
        /\ Range(st_routes) \subseteq KnownRoutes
        /\ \A route \in KnownRoutes :
              route \in Range(st_routes) <=>
                  \A x \in StoredRows(route) :
                      OlderThan(x.instant, st_now, st_days_fresh)

\* One route with an old row was returned and one route fetched within the
\* threshold was left out.
C7_Witness ==
    /\ st_pc = "selected" /\ st_days_fresh > 0
    /\ \E r1, r2 \in KnownRoutes :
          /\ StoredRows(r1) # {} /\ r1 \in Range(st_routes)
          /\ StoredRows(r2) # {} /\ r2 \notin Range(st_routes)

\* C8: with threshold 0 every known route of the source is selected, whenever
\* (and whether) it was last fetched.
C8_ZeroSelectsAll ==
    (st_pc \in {"selected", "planned", "nothing"} /\ st_days_fresh = 0) =>
        /\ Range(st_routes) = KnownRoutes
        /\ Len(st_routes) = Cardinality(KnownRoutes)

\* Threshold 0 selected a route fetched at this very instant and a route that
\* was never fetched.
C8_Witness ==
    /\ st_pc = "selected" /\ st_days_fresh = 0
    /\ \E r1, r2 \in Range(st_routes) :
          /\ \E x \in StoredRows(r1) : x.instant = st_now
          /\ StoredRows(r2) = {}

\* ========================================================= retrying client
_POST_RETRIES == 8
MAX_RETRIES == 3
RETRY_BACKOFF == 5

\* What one request can come back with: an HTTP status (its digits), or "exc" for a
\* requests.RequestException (timeout, reset, undecodable body).
Responses == {"200", "429", "503", "404", "400", "500", "exc"}
\* random.uniform(0, 5), in whole seconds.
Jitters == 0..5

\* Mutant of MaxAttempts: the loop stops one attempt early.
MaxAttemptsOneShort(method) ==
    IF method = "post" THEN _POST_RETRIES - 1 ELSE MAX_RETRIES - 1

\* range(1, _POST_RETRIES + 1) / range(1, MAX_RETRIES + 1)   api.py:107, 164
MaxAttempts(method) == IF method = "post" THEN _POST_RETRIES ELSE MAX_RETRIES

\* What the fetch of the homepage can give: a page with the "apiUrl" pattern,
\* a page without it, or an HTTP error status.                    api.py:79-83
Pages == {"pattern", "nopattern", "httperror"}

\* Mutant of _discover_api: a page without the pattern makes it return with
\* the base still undefined.
DiscoverWithoutRaise(api_base, page) ==
    CASE page = "httperror" -> [api_base |-> api_base, raised |-> TRUE]
      [] page = "pattern" -> [api_base |-> "base", raised |-> FALSE]
      [] OTHER -> [api_base |-> api_base, raised |-> FALSE]

\* _discover_api: raise_for_status, the search of the pattern, and the
\* RuntimeError when self._api_base is still None.                 api.py:77-88
_discover_api(api_base, page) ==
    CASE page = "httperror" -> [api_base |-> api_base, raised |-> TRUE]
      [] page = "pattern" -> [api_base |-> "base", raised |-> FALSE]
      [] OTHER -> [api_base |-> api_base, raised |-> (api_base = "none")]

\* _base(): discovery only when no base is known.                  api.py:90-93
_base(api_base, page) ==
    IF api_base = "none" THEN _discover_api(api_base, page)
    ELSE [api_base |-> api_base, raised |-> FALSE]

\* Mutant of GetBranch: a 404 is handled like any other bad status.
GetBranchRetry404(status) ==
    CASE status = "200" -> "ok"
      [] status = "429" -> "rate_limited"
      [] OTHER -> "other"

\* The if-chain of get on the response.                        api.py:168-178
GetBranch(status) ==
    CASE status = "200" -> "ok"
      [] status = "429" -> "rate_limited"
      [] status = "404" -> "not_found"
      [] OTHER -> "other"

\* The if-chain of post on the response.                       api.py:112-143
PostBranch(status, attempt) ==
    CASE status = "200" -> "ok"
      [] status \in {"429", "503"} -> "rate_limited"
      [] status = "404" -> "not_found"
      [] status = "400" /\ attempt < _POST_RETRIES -> "session_expired"
      [] OTHER -> "other"

\* Mutant of RateLimitWait: the step per attempt is no larger than the jitter.
RateLimitWaitSmallStep(attempt, jitter) == RETRY_BACKOFF * attempt + jitter

\* wait = 8 * attempt + jitter                                  api.py:117-118
RateLimitWait(attempt, jitter) == 8 * attempt + jitter

\* Mutant of SessionExpiredDelay: the delay grows with the attempt.
SessionExpiredDelayGrowing(attempt) == 2 * attempt

\* time.sleep(2) after a 400                                        api.py:135
SessionExpiredDelay(attempt) == 2

\* time.sleep(RETRY_BACKOFF * attempt) when an attempt is left. api.py:150-151,
\*                                                                  182-183
LinearBackoff(method, attempt) ==
    IF attempt < (IF method = "post" THEN _POST_RETRIES ELSE MAX_RETRIES)
    THEN RETRY_BACKOFF * attempt ELSE 0

RetryIdle ==
    /\ rq_pc = "idle" /\ rq_method = "post" /\ rq_api_base = "none"
    /\ rq_page = "pattern" /\ rq_sent_on = 0
    /\ rq_session = 0 /\ rq_attempt = 0 /\ rq_sent = 0 /\ rq_status = "none"
    /\ rq_only429 = TRUE /\ rq_slept = 0 /\ rq_result = "pending"
    /\ rq_calls = 0 /\ rq_prev = "none"

\* A session object before its first call: a worker's session is built with
\* the shared base, the probe and the default session without one; no Session
\* yet.                                                         api.py:63-66
RetryStart ==
    /\ rq_pc = "call"
    /\ rq_method \in {"post", "get"}
    /\ rq_api_base \in {"none", "base"}
    /\ rq_page \in Pages /\ rq_sent_on = 0
    /\ rq_session = 0 /\ rq_attempt = 0 /\ rq_sent = 0 /\ rq_status = "none"
    /\ rq_only429 = TRUE /\ rq_slept = 0 /\ rq_result = "pending"
    /\ rq_calls = 1 /\ rq_prev = "none"

\* Mutant of FirstAttempt: the attempt counter is kept on the session object
\* and a call goes on where the call before it stopped.
FirstAttemptCarried(last) == IF last = 0 THEN 1 ELSE last

\* for attempt in range(1, ...): attempt is a local of the call and starts at
\* 1, whatever value the loop of an earlier call left.        api.py:107, 164
FirstAttempt(last) == 1

\* The head of post/get: self._base(), with _discover_api when no base is
\* known, then _ensure_session.  _discover_api makes the Session for its own
\* fetch.                                      api.py:102-105, 77-93, 159-162
ClientBegin ==
    /\ rq_pc = "call"
    /\ LET b == _base(rq_api_base, rq_page)
       IN  /\ rq_api_base' = b.api_base
           /\ rq_pc' = IF b.raised THEN "raised" ELSE "loop"
    /\ rq_session' = IF rq_session = 0 THEN 1 ELSE rq_session
    /\ rq_attempt' = FirstAttempt(rq_attempt)
    /\ UNCHANGED <<rq_method, rq_page, rq_sent_on, rq_sent, rq_status, rq_only429,
                   rq_slept, rq_result, rq_calls, rq_prev>>
    /\ UNCHANGED <<pairVars, staleVars, crawlVars, harvestVars, throttleVars,
                    sessionVars, planVars, storeVars, faultVars, parseVars>>

\* The end of one pass of the for-loop that did not return: the next attempt,
\* or the "failed after N attempts" return of None.        api.py:107, 153-155
LoopStep(pc_attempt) ==
    IF pc_attempt >= MaxAttempts(rq_method)
    THEN /\ rq_pc' = "returned" /\ rq_result' = "None" /\ rq_attempt' = pc_attempt
    ELSE /\ rq_pc' = "loop" /\ rq_result' = rq_result /\ rq_attempt' = pc_attempt + 1

\* One pass of the for-loop of post: the request on the current Session and
\* the handling of its response.                              api.py:107-151
PostAttempt ==
    /\ rq_pc = "loop" /\ rq_method = "post"
    /\ \E resp \in Responses, jitter \in Jitters :
          /\ rq_sent' = rq_sent + 1
          /\ rq_sent_on' = rq_session
          /\ rq_status' = resp
          /\ rq_only429' = (rq_only429 /\ resp = "429")
          /\ LET branch == PostBranch(resp, rq_attempt)
             IN  CASE branch = "ok" ->
                        /\ rq_pc' = "returned" /\ rq_result' = "json"
                        /\ rq_slept' = 0
                        /\ UNCHANGED <<rq_attempt, rq_session>>
                   [] branch = "rate_limited" ->
                        /\ rq_session' = rq_session + 1
                        /\ rq_slept' = RateLimitWait(rq_attempt, jitter)
                        /\ LoopStep(rq_attempt)
                   [] branch = "not_found" ->
                        /\ rq_pc' = "returned" /\ rq_result' = "None"
                        /\ rq_slept' = 0
                        /\ UNCHANGED <<rq_attempt, rq_session>>
                   [] branch = "session_expired" ->
                        /\ rq_session' = rq_session + 1
                        /\ rq_slept' = SessionExpiredDelay(rq_attempt)
                        /\ LoopStep(rq_attempt)
                   [] OTHER ->
                        /\ rq_slept' = LinearBackoff("post", rq_attempt)
                        /\ LoopStep(rq_attempt)
                        /\ UNCHANGED rq_session
    /\ UNCHANGED <<rq_method, rq_api_base, rq_page, rq_calls, rq_prev>>
    /\ UNCHANGED <<pairVars, staleVars, crawlVars, harvestVars, throttleVars,
                    sessionVars, planVars, storeVars, faultVars, parseVars>>

\* One pass of the for-loop of get: time.sleep(1.0), the request on the
\* Session the call began with, and the handling of its response.
\*                                                             api.py:164-183
GetAttempt ==
    /\ rq_pc = "loop" /\ rq_method = "get"
    /\ \E resp \in Responses :
          /\ rq_sent' = rq_sent + 1
          /\ rq_sent_on' = rq_session
          /\ rq_status' = resp
          /\ rq_only429' = (rq_only429 /\ resp = "429")
          /\ LET branch == GetBranch(resp)
             IN  CASE branch = "ok" ->
                        /\ rq_pc' = "returned" /\ rq_result' = "json"
                        /\ rq_slept' = 0
                        /\ UNCHANGED rq_attempt
                   [] branch = "rate_limited" ->
                        /\ rq_slept' = RETRY_BACKOFF * rq_attempt
                        /\ LoopStep(rq_attempt)
                   [] branch = "not_found" ->
                        /\ rq_pc' = "returned" /\ rq_result' = "None"
                        /\ rq_slept' = 0
                        /\ UNCHANGED rq_attempt
                   [] OTHER ->
                        /\ rq_slept' = LinearBackoff("get", rq_attempt)
                        /\ LoopStep(rq_attempt)
    /\ UNCHANGED <<rq_method, rq_api_base, rq_page, rq_session, rq_calls, rq_prev>>
    /\ UNCHANGED <<pairVars, staleVars, crawlVars, harvestVars, throttleVars,
                    sessionVars, planVars, storeVars, faultVars, parseVars>>

\* C4: a post call whose every response is a 429 makes exactly _POST_RETRIES
\* attempts and then returns None (a get call likewise MAX_RETRIES); no call
\* ever sends more requests than its maximum.
C4_RetryBound ==
    /\ rq_method = "post" => rq_sent <= _POST_RETRIES
    /\ rq_method = "get" => rq_sent <= MAX_RETRIES
    /\ (rq_pc = "returned" /\ rq_only429) =>
          /\ rq_result = "None"
          /\ rq_method = "post" => rq_sent = _POST_RETRIES
          /\ rq_method = "get" => rq_sent = MAX_RETRIES

\* A post call returned after nothing but 429 responses.
C4_Witness ==
    /\ rq_pc = "returned" /\ rq_method = "post"
    /\ rq_only429 /\ rq_status = "429" /\ rq_sent = _POST_RETRIES

\* C14: a 404 makes get and post return None at once: the call is over (it
\* returned, it did not raise), no attempt follows and no delay was taken
\* after the response.
C14_NotFoundReturnsNone ==
    rq_status = "404" =>
        /\ rq_pc = "returned"
        /\ rq_result = "None"
        /\ rq_slept = 0
        /\ rq_session = rq_sent_on

\* A get call got a 404 on its second attempt.
C14_Witness ==
    /\ rq_method = "get" /\ rq_status = "404"
    /\ rq_sent = 2 /\ rq_attempt = 2

\* C15 as stated: in get and in post, after a 429 or 503 that leaves an
\* attempt to make, the session the request was sent on has been replaced and
\* a backoff delay taken.  Violated by get, which sleeps and goes on with the
\* Session the call began with.
C15_RateLimitDiscardsSession ==
    (rq_status \in {"429", "503"} /\ rq_pc = "loop") =>
        /\ rq_session # rq_sent_on
        /\ rq_slept > 0

\* C16: after a 400 that leaves an attempt to make, post has replaced the
\* session and slept 2 seconds whatever the attempt number, and the attempt
\* that follows is sent on the new session.
C16_SessionExpiredFixedDelay ==
    /\ []((rq_method = "post" /\ rq_status = "400" /\ rq_pc = "loop") =>
             /\ rq_session = rq_sent_on + 1
             /\ rq_slept = 2)
    /\ [][(rq_method = "post" /\ rq_status = "400" /\ rq_sent' = rq_sent + 1) =>
             /\ rq_sent_on' # rq_sent_on
             /\ rq_sent_on' = rq_session]_vars

\* A post call got a 400 on its third attempt and goes on.
C16_Witness ==
    /\ rq_method = "post" /\ rq_status = "400" /\ rq_pc = "loop"
    /\ rq_sent = 3 /\ rq_attempt = 4 /\ rq_slept = 2

\* C19: a call that finds no base URL (no pattern in the fetched page) ends by
\* raising, with no request sent; every request is sent with a base URL.
C19_DiscoveryFatal ==
    /\ rq_sent > 0 => rq_api_base = "base"
    /\ (rq_pc # "call" /\ rq_api_base = "none") =>
          /\ rq_pc = "raised"
          /\ rq_sent = 0
          /\ rq_result = "pending"

\* Discovery fetched a page without the pattern and the call raised.
C19_Witness ==
    /\ rq_pc = "raised" /\ rq_page = "nopattern" /\ rq_api_base = "none"

\* The next task of the caller: another call on the same session object.  The
\* locals of the call before are gone (attempt keeps the value the loop left,
\* until the for statement binds it again); self._session and self._api_base
\* stay as the call left them.          schedules.py:159-179, api.py:100-107
NextCall ==
    /\ rq_pc \in {"returned", "raised"}
    /\ rq_calls < MaxCalls
    /\ rq_calls' = rq_calls + 1
    /\ rq_prev' = IF rq_pc = "raised" THEN "raised"
                  ELSE IF rq_result = "json" THEN "json"
                  ELSE IF rq_status = "404" THEN "None" ELSE "failed"
    /\ rq_pc' = "call"
    /\ rq_page' \in Pages
    /\ rq_sent' = 0 /\ rq_sent_on' = 0 /\ rq_status' = "none"
    /\ rq_only429' = TRUE /\ rq_slept' = 0 /\ rq_result' = "pending"
    /\ UNCHANGED <<rq_method, rq_api_base, rq_session, rq_attempt>>
    /\ UNCHANGED <<pairVars, staleVars, crawlVars, harvestVars, throttleVars,
                    sessionVars, planVars, storeVars, faultVars, parseVars>>

\* C31: within one post call, the delay taken after a 429/503 is longer than
\* the delay taken after the 429/503 of the attempt before, whatever the two
\* jitters; and the wait of attempt k + 1 with the least jitter is longer than
\* the wait of attempt k with the most.
C31_RateLimitBackoffGrows ==
    /\ [][(/\ rq_method = "post" /\ rq_pc = "loop"
           /\ rq_status \in {"429", "503"}
           /\ rq_sent' = rq_sent + 1
           /\ rq_status' \in {"429", "503"})
             => rq_slept' > rq_slept]_vars
    /\ [](\A k \in 1..(_POST_RETRIES - 1) : \A j1, j2 \in Jitters :
             RateLimitWait(k + 1, j2) > RateLimitWait(k, j1))

\* A post call got a 429 on each of its first two attempts and waited the
\* least a second attempt can wait.
C31_Witness ==
    /\ rq_method = "post" /\ rq_pc = "loop" /\ rq_only429
    /\ rq_sent = 2 /\ rq_slept = RateLimitWait(2, 0)

\* C30: a call sends at most its maximum of requests, and a call that returns
\* without a 200 returns None; the attempt number of a call counts the
\* requests of that call alone, so a call on a session object whose call
\* before failed has the full number of attempts: it returns None for want of
\* attempts only after MaxAttempts requests of its own.
C30_RetryStatePerCall ==
    /\ rq_sent <= MaxAttempts(rq_method)
    /\ rq_pc = "loop" => rq_attempt = rq_sent + 1
    /\ rq_pc = "returned" =>
          /\ rq_result = "json" <=> rq_status = "200"
          /\ rq_result # "json" => rq_result = "None"
          /\ rq_status \notin {"200", "404"} => rq_sent = MaxAttempts(rq_method)

\* The second post call on a session object whose first call failed has made
\* all its attempts and failed too.
C30_Witness ==
    /\ rq_calls = 2 /\ rq_prev = "failed"
    /\ rq_method = "post" /\ rq_pc = "returned"
    /\ rq_result = "None" /\ rq_sent = _POST_RETRIES

\* ================================================================ crawl run
\* The writer commits when batch_sched reaches this.             schedules.py:142
COMMIT_ROWS == 500

WorkerIds == 0..(MaxWorkers - 1)
Tasks == (1..MaxPairs) \X (1..MaxWindows)

\* What a parsed response can hold: <<schedule rows, fare rows>>.  A fare row
\* is only made next to a schedule row.                        schedules.py:93-102
BatchShapes == {<<1, 0>>, <<250, 250>>}

\* _SENTINEL = None, as an item of the queue.                     schedules.py:31
_SENTINEL == [kind |-> "sentinel", task |-> <<0, 0>>, sched |-> 0, fare |-> 0]
NoBatch == [kind |-> "none", task |-> <<0, 0>>, sched |-> 0, fare |-> 0]
Batch(task, shape) ==
    [kind |-> "batch", task |-> task, sched |-> shape[1], fare |-> shape[2]]

\* chunks[i] = pairs[i::n_workers]                               schedules.py:264
ChunkLen(i) == Cardinality({p \in 1..n_pairs : (p - 1) % n_workers = i})
ChunkPair(i, k) == i + 1 + (k - 1) * n_workers
TaskAt(i) == <<ChunkPair(i, w_pos[i].k), w_pos[i].win>>

\* The two nested for-loops of _worker: the position after the current task
\* ("continue" and the end of the loop body alike).         schedules.py:159-160
WorkerAdvance(i) ==
    IF w_pos[i].win < num_windows
    THEN /\ w_pos' = [w_pos EXCEPT ![i].win = @ + 1]
         /\ w_pc' = [w_pc EXCEPT ![i] = "fetch"]
    ELSE IF w_pos[i].k < ChunkLen(i)
         THEN /\ w_pos' = [w_pos EXCEPT ![i] = [k |-> @.k + 1, win |-> 1]]
              /\ w_pc' = [w_pc EXCEPT ![i] = "fetch"]
         ELSE /\ w_pos' = w_pos
              /\ w_pc' = [w_pc EXCEPT ![i] = "finish"]

LogEntry(thread, op) ==
    [thread |-> thread, op |-> op, writer_running |-> (wr_pc = "running")]

CrawlIdle ==
    /\ o_pc = "idle" /\ n_pairs = 0 /\ num_windows = 0 /\ workers = 0 /\ n_workers = 0
    /\ w_pc = [i \in WorkerIds |-> "unstarted"]
    /\ w_pos = [i \in WorkerIds |-> [k |-> 1, win |-> 1]]
    /\ w_batch = [i \in WorkerIds |-> NoBatch]
    /\ local_errors = [i \in WorkerIds |-> 0]
    /\ write_q = <<>> /\ wr_pc = "unstarted" /\ wr_starts = 0 /\ pg_pc = "unstarted"
    /\ batch_sched = 0 /\ batch_fare = 0
    /\ counters = [sched |-> 0, fare |-> 0, errors |-> 0, done |-> 0]
    /\ db_open = {} /\ db_committed = {} /\ db_log = {}
    /\ enqueued = [t \in Tasks |-> 0]
    /\ attempted = {} /\ n_exhausted = 0 /\ put_rows = [sched |-> 0, fare |-> 0]

\* scrape_schedules with a non-empty pairs list, before line 231: the
\* arguments and the selected pairs.                         schedules.py:199-229
CrawlStart ==
    /\ o_pc = "start"
    /\ n_pairs \in 1..MaxPairs
    /\ num_windows \in 1..MaxWindows
    /\ n_pairs * num_windows <= MaxTasks
    /\ workers \in 1..MaxWorkers
    /\ n_workers = 0
    /\ w_pc = [i \in WorkerIds |-> "unstarted"]
    /\ w_pos = [i \in WorkerIds |-> [k |-> 1, win |-> 1]]
    /\ w_batch = [i \in WorkerIds |-> NoBatch]
    /\ local_errors = [i \in WorkerIds |-> 0]
    /\ write_q = <<>> /\ wr_pc = "unstarted" /\ wr_starts = 0 /\ pg_pc = "unstarted"
    /\ batch_sched = 0 /\ batch_fare = 0
    /\ counters = [sched |-> 0, fare |-> 0, errors |-> 0, done |-> 0]
    /\ db_open = {} /\ db_committed = {} /\ db_log = {}
    /\ enqueued = [t \in Tasks |-> 0]
    /\ attempted = {} /\ n_exhausted = 0 /\ put_rows = [sched |-> 0, fare |-> 0]

\* scrape_schedules from the windows to the started progress thread: the
\* probe's discovery, the queue, the counters, the writer thread, the chunks.
\*                                                           schedules.py:231-282
OrchStart ==
    /\ o_pc = "start"
    /\ \/ \* the probe session finds the API base
          /\ n_workers' = Min(workers, n_pairs)
          /\ wr_pc' = "running"
          /\ wr_starts' = wr_starts + 1
          /\ pg_pc' = "polling"
          /\ o_pc' = "submit"
       \/ \* probe._base() raises: scrape_schedules is left before the writer starts
          /\ o_pc' = "raised"
          /\ UNCHANGED <<n_workers, wr_pc, wr_starts, pg_pc>>
    /\ UNCHANGED <<n_pairs, num_windows, workers, w_pc, w_pos, w_batch, local_errors,
                   write_q, batch_sched, batch_fare, counters, db_open, db_committed,
                   db_log, enqueued>>
    /\ UNCHANGED <<attempted, n_exhausted, put_rows>>
    /\ UNCHANGED <<pairVars, staleVars, retryVars, harvestVars, throttleVars,
                    sessionVars, planVars, storeVars, faultVars, parseVars>>

\* The pool and the submit of one _worker per chunk.          schedules.py:284-292
OrchSubmit ==
    /\ o_pc = "submit"
    /\ w_pc' = [i \in WorkerIds |-> IF i < n_workers THEN "fetch" ELSE "unstarted"]
    /\ o_pc' = "pool"
    /\ UNCHANGED <<n_pairs, num_windows, workers, n_workers, w_pos, w_batch,
                   local_errors, write_q, wr_pc, wr_starts, pg_pc, batch_sched, batch_fare,
                   counters, db_open, db_committed, db_log, enqueued>>
    /\ UNCHANGED <<attempted, n_exhausted, put_rows>>
    /\ UNCHANGED <<pairVars, staleVars, retryVars, harvestVars, throttleVars,
                    sessionVars, planVars, storeVars, faultVars, parseVars>>

\* Mutant of AfterFailedRequest: the exception of the request is not caught
\* and ends the worker.
AfterFailedRequestAbort(i) ==
    /\ w_pc' = [w_pc EXCEPT ![i] = "crashed"]
    /\ w_pos' = w_pos

\* "continue" after a request that raised, and after one that returned no
\* data: on to the next task.                        schedules.py:179, 181-182
AfterFailedRequest(i) == WorkerAdvance(i)

\* One task of a worker up to the put: the request and the parsing.
\*                                                           schedules.py:161-191
WorkerFetch(i) ==
    /\ w_pc[i] = "fetch"
    /\ attempted' = attempted \cup {TaskAt(i)}
    /\ \/ \* sess.post raised: counted, next task               schedules.py:176-179
          /\ local_errors' = [local_errors EXCEPT ![i] = @ + 1]
          /\ AfterFailedRequest(i)
          /\ UNCHANGED <<w_batch, n_exhausted>>
       \/ \* sess.post returned None after its last attempt   schedules.py:181-182
          /\ n_exhausted' = n_exhausted + 1
          /\ AfterFailedRequest(i)
          /\ UNCHANGED <<local_errors, w_batch>>
       \/ \* sess.post returned None on a 404, or a response without any parsed
          \* row: nothing is put                          schedules.py:181-182, 191
          /\ WorkerAdvance(i)
          /\ UNCHANGED <<local_errors, w_batch, n_exhausted>>
       \/ \* parsed rows: the batch is ready to be put         schedules.py:184-191
          /\ \E shape \in BatchShapes :
                w_batch' = [w_batch EXCEPT ![i] = Batch(TaskAt(i), shape)]
          /\ w_pc' = [w_pc EXCEPT ![i] = "put"]
          /\ UNCHANGED <<local_errors, w_pos, n_exhausted>>
       \/ \* parsing raised (a response of another shape): _worker is left
          /\ w_pc' = [w_pc EXCEPT ![i] = "crashed"]
          /\ UNCHANGED <<local_errors, w_pos, w_batch, n_exhausted>>
    /\ UNCHANGED <<o_pc, n_pairs, num_windows, workers, n_workers, write_q, wr_pc,
                   wr_starts, pg_pc, batch_sched, batch_fare, counters, db_open, db_committed,
                   db_log, enqueued, put_rows>>
    /\ UNCHANGED <<pairVars, staleVars, retryVars, harvestVars, throttleVars,
                    sessionVars, planVars, storeVars, faultVars, parseVars>>

\* Mutant of HandOver: the worker writes its rows to the store itself.
HandOverDirectWrite(i) ==
    /\ db_open' = db_open \cup {w_batch[i].task}
    /\ db_log' = db_log \cup {LogEntry("worker", "execute")}
    /\ enqueued' = [enqueued EXCEPT ![w_batch[i].task] = @ + 1]
    /\ UNCHANGED <<write_q, put_rows>>

\* Mutant of HandOver: put_nowait with the Full exception swallowed.
HandOverDropWhenFull(i) ==
    /\ IF Len(write_q) < QueueCap
       THEN /\ write_q' = Append(write_q, w_batch[i])
            /\ enqueued' = [enqueued EXCEPT ![w_batch[i].task] = @ + 1]
            /\ put_rows' = [sched |-> put_rows.sched + w_batch[i].sched,
                            fare |-> put_rows.fare + w_batch[i].fare]
       ELSE UNCHANGED <<write_q, enqueued, put_rows>>
    /\ UNCHANGED <<db_open, db_log>>

\* write_q.put((all_sched, all_fare)): blocks while the queue is full.
\*                                                      schedules.py:192, 254
HandOver(i) ==
    /\ Len(write_q) < QueueCap
    /\ write_q' = Append(write_q, w_batch[i])
    /\ enqueued' = [enqueued EXCEPT ![w_batch[i].task] = @ + 1]
    /\ put_rows' = [sched |-> put_rows.sched + w_batch[i].sched,
                    fare |-> put_rows.fare + w_batch[i].fare]
    /\ UNCHANGED <<db_open, db_log>>

\* The put of a worker, and on to its next task.                 schedules.py:192
WorkerPut(i) ==
    /\ w_pc[i] = "put"
    /\ HandOver(i)
    /\ w_batch' = [w_batch EXCEPT ![i] = NoBatch]
    /\ WorkerAdvance(i)
    /\ UNCHANGED <<o_pc, n_pairs, num_windows, workers, n_workers, local_errors, wr_pc,
                   wr_starts, pg_pc, batch_sched, batch_fare, counters, db_committed>>
    /\ UNCHANGED <<attempted, n_exhausted>>
    /\ UNCHANGED <<pairVars, staleVars, retryVars, harvestVars, throttleVars,
                    sessionVars, planVars, storeVars, faultVars, parseVars>>

\* The end of _worker: the shared counters, under the lock.  schedules.py:194-196
WorkerFinish(i) ==
    /\ w_pc[i] = "finish"
    /\ counters' = [counters EXCEPT !.errors = @ + local_errors[i],
                                    !.done = @ + ChunkLen(i)]
    /\ w_pc' = [w_pc EXCEPT ![i] = "done"]
    /\ UNCHANGED <<o_pc, n_pairs, num_windows, workers, n_workers, w_pos, w_batch,
                   local_errors, write_q, wr_pc, wr_starts, pg_pc, batch_sched, batch_fare,
                   db_open, db_committed, db_log, enqueued>>
    /\ UNCHANGED <<attempted, n_exhausted, put_rows>>
    /\ UNCHANGED <<pairVars, staleVars, retryVars, harvestVars, throttleVars,
                    sessionVars, planVars, storeVars, faultVars, parseVars>>

\* Mutant of WriterOnSentinel: the sentinel does not end the writer's loop.
WriterOnSentinelStay ==
    /\ db_committed' = db_committed \cup db_open
    /\ db_open' = {}
    /\ db_log' = db_log \cup {LogEntry("writer", "commit")}
    /\ UNCHANGED <<counters, wr_pc, batch_sched, batch_fare>>

\* The writer on the sentinel: commit, leave the loop, add what was not yet
\* counted.                                         schedules.py:114-116, 149-150
WriterOnSentinel ==
    /\ db_committed' = db_committed \cup db_open
    /\ db_open' = {}
    /\ db_log' = db_log \cup {LogEntry("writer", "commit")}
    /\ counters' = [counters EXCEPT !.sched = @ + batch_sched, !.fare = @ + batch_fare]
    /\ wr_pc' = "exited"
    /\ UNCHANGED <<batch_sched, batch_fare>>

\* Mutant of ReachedThreshold: the commit waits for more than COMMIT_ROWS rows.
ReachedThresholdStrict(rows) == rows > COMMIT_ROWS

\* if batch_sched >= 500                                         schedules.py:142
ReachedThreshold(rows) == rows >= COMMIT_ROWS

\* Mutant of WriterOnBatch: the threshold commit does not reset batch_sched
\* and batch_fare.
WriterOnBatchNoReset(item) ==
    /\ IF ReachedThreshold(batch_sched + item.sched)
       THEN /\ db_committed' = db_committed \cup db_open \cup {item.task}
            /\ db_open' = {}
            /\ db_log' = db_log \cup {LogEntry("writer", "execute"),
                                      LogEntry("writer", "commit")}
            /\ counters' = [counters EXCEPT !.sched = @ + batch_sched + item.sched,
                                            !.fare = @ + batch_fare + item.fare]
       ELSE /\ db_open' = db_open \cup {item.task}
            /\ db_log' = db_log \cup {LogEntry("writer", "execute")}
            /\ UNCHANGED <<db_committed, counters>>
    /\ batch_sched' = batch_sched + item.sched
    /\ batch_fare' = batch_fare + item.fare
    /\ UNCHANGED wr_pc

\* The writer on a batch: every row is executed, then the threshold commit.
\*                                                           schedules.py:118-147
WriterOnBatch(item) ==
    /\ IF ReachedThreshold(batch_sched + item.sched)
       THEN /\ db_committed' = db_committed \cup db_open \cup {item.task}
            /\ db_open' = {}
            /\ db_log' = db_log \cup {LogEntry("writer", "execute"),
                                      LogEntry("writer", "commit")}
            /\ counters' = [counters EXCEPT !.sched = @ + batch_sched + item.sched,
                                            !.fare = @ + batch_fare + item.fare]
            /\ batch_sched' = 0
            /\ batch_fare' = 0
       ELSE /\ db_open' = db_open \cup {item.task}
            /\ db_log' = db_log \cup {LogEntry("writer", "execute")}
            /\ batch_sched' = batch_sched + item.sched
            /\ batch_fare' = batch_fare + item.fare
            /\ UNCHANGED <<db_committed, counters>>
    /\ UNCHANGED wr_pc

\* The connection has not been closed.                          scrape.py:160-161
StoreOpen == ft_pc # "closed"

\* One pass of the loop of _db_writer: write_q.get() blocks while the queue is
\* empty.                                                    schedules.py:112-150
WriterStep ==
    /\ wr_pc = "running"
    /\ StoreOpen
    /\ write_q # <<>>
    /\ write_q' = Tail(write_q)
    /\ IF Head(write_q) = _SENTINEL
       THEN WriterOnSentinel
       ELSE WriterOnBatch(Head(write_q))
    /\ UNCHANGED <<o_pc, n_pairs, num_windows, workers, n_workers, w_pc, w_pos, w_batch,
                   local_errors, wr_starts, pg_pc, enqueued>>
    /\ UNCHANGED <<attempted, n_exhausted, put_rows>>
    /\ UNCHANGED <<pairVars, staleVars, retryVars, harvestVars, throttleVars,
                    sessionVars, planVars, storeVars, faultVars, parseVars>>

\* Mutant of PoolDone: the pool is shut down without waiting for the workers.
PoolDoneNoWait == TRUE

\* Mutant of PoolDone: the orchestrator goes on when the first worker is done.
PoolDoneFirst == \E i \in WorkerIds : w_pc[i] \in {"done", "crashed"}

\* The pool is left when every submitted worker has returned or raised.
\*                                                           schedules.py:286-298
PoolDone == \A i \in WorkerIds : w_pc[i] \in {"unstarted", "done", "crashed"}

\* as_completed over all futures and the exit of the with-block.
\*                                                           schedules.py:286-298
OrchPoolExit ==
    /\ o_pc = "pool"
    /\ PoolDone
    /\ o_pc' = "sentinel"
    /\ UNCHANGED <<n_pairs, num_windows, workers, n_workers, w_pc, w_pos, w_batch,
                   local_errors, write_q, wr_pc, wr_starts, pg_pc, batch_sched, batch_fare,
                   counters, db_open, db_committed, db_log, enqueued>>
    /\ UNCHANGED <<attempted, n_exhausted, put_rows>>
    /\ UNCHANGED <<pairVars, staleVars, retryVars, harvestVars, throttleVars,
                    sessionVars, planVars, storeVars, faultVars, parseVars>>

\* write_q.put(_SENTINEL): blocks while the queue is full.        schedules.py:300
OrchPutSentinel ==
    /\ o_pc = "sentinel"
    /\ Len(write_q) < QueueCap
    /\ write_q' = Append(write_q, _SENTINEL)
    /\ o_pc' = "join"
    /\ UNCHANGED <<n_pairs, num_windows, workers, n_workers, w_pc, w_pos, w_batch,
                   local_errors, wr_pc, wr_starts, pg_pc, batch_sched, batch_fare, counters,
                   db_open, db_committed, db_log, enqueued>>
    /\ UNCHANGED <<attempted, n_exhausted, put_rows>>
    /\ UNCHANGED <<pairVars, staleVars, retryVars, harvestVars, throttleVars,
                    sessionVars, planVars, storeVars, faultVars, parseVars>>

\* Mutant of WriterJoined: the orchestrator does not wait for the writer.
WriterJoinedNoWait == TRUE

\* writer.join() returns: the writer thread has ended.           schedules.py:301
WriterJoined == wr_pc \in {"exited", "failed"}

\* writer.join(), conn.commit() and the final tally.  The commit makes
\* whatever the open transaction holds permanent.            schedules.py:301-309
OrchJoinCommit ==
    /\ o_pc = "join"
    /\ WriterJoined
    /\ db_committed' = db_committed \cup db_open
    /\ db_open' = {}
    /\ ft_part_committed' = ft_part_committed \cup ft_part_open
    /\ ft_part_open' = {}
    /\ db_log' = db_log \cup {LogEntry("main", "commit")}
    /\ o_pc' = "done"
    /\ UNCHANGED <<n_pairs, num_windows, workers, n_workers, w_pc, w_pos, w_batch,
                   local_errors, write_q, wr_pc, wr_starts, pg_pc, batch_sched, batch_fare,
                   counters, enqueued>>
    /\ UNCHANGED <<attempted, n_exhausted, put_rows>>
    /\ UNCHANGED <<ft_pc, ft_queued, ft_item>>
    /\ UNCHANGED <<pairVars, staleVars, retryVars, harvestVars, throttleVars,
                    sessionVars, planVars, storeVars, parseVars>>

\* The progress thread: one pass of its while-loop (sleep, read the counters,
\* log), or the end of the loop.                             schedules.py:266-281
ProgressPoll ==
    /\ pg_pc = "polling"
    /\ IF counters.done < n_pairs THEN pg_pc' = "polling" ELSE pg_pc' = "exited"
    /\ UNCHANGED <<o_pc, n_pairs, num_windows, workers, n_workers, w_pc, w_pos, w_batch,
                   local_errors, write_q, wr_pc, wr_starts, batch_sched, batch_fare,
                   counters, db_open, db_committed, db_log, enqueued>>
    /\ UNCHANGED <<attempted, n_exhausted, put_rows>>
    /\ UNCHANGED <<pairVars, staleVars, retryVars, harvestVars, throttleVars,
                    sessionVars, planVars, storeVars, faultVars, parseVars>>

\* The rows of the items of the queue from position k on.
RECURSIVE QueuedRows(_, _)
QueuedRows(q, k) ==
    IF k > Len(q) THEN [sched |-> 0, fare |-> 0]
    ELSE LET rest == QueuedRows(q, k + 1)
         IN  [sched |-> q[k].sched + rest.sched, fare |-> q[k].fare + rest.fare]

\* Tasks whose batch was put on the queue at least once.
EnqueuedTasks == {t \in Tasks : enqueued[t] >= 1}

\* C1: during a crawl run at most one writer thread exists and it alone inserts
\* or updates rows: no worker executes a store statement, and no statement of
\* another thread is executed while the writer is running.
C1_SingleWriter ==
    /\ wr_starts <= 1
    /\ \A e \in db_log :
          /\ e.thread # "worker"
          /\ e.op = "execute" => e.thread = "writer"
          /\ e.thread # "writer" => ~e.writer_running

\* The writer has written a batch while a worker is still at work.
C1_Witness ==
    /\ wr_pc = "running"
    /\ \E e \in db_log : e.thread = "writer" /\ e.op = "execute"
    /\ \E i \in WorkerIds : w_pc[i] \in {"fetch", "put"}

\* C2: the write queue never holds more than its capacity; a worker whose put
\* finds the queue full stays at the put with its batch (no exception, no
\* drop), a put that goes through appends exactly that batch, no batch is
\* put twice, and every batch a worker produced is eventually in the queue.
C2_Backpressure ==
    /\ [](/\ Len(write_q) <= QueueCap
          /\ \A t \in Tasks : enqueued[t] <= 1
          /\ \A i \in WorkerIds :
                w_pc[i] = "put" =>
                    w_batch[i].kind = "batch" /\ enqueued[w_batch[i].task] = 0)
    /\ [][\A i \in WorkerIds :
             w_pc[i] = "put" =>
                 \/ w_pc'[i] = "put" /\ w_batch'[i] = w_batch[i]
                 \/ /\ Len(write_q) < QueueCap
                    /\ write_q' = Append(write_q, w_batch[i])
                    /\ enqueued'[w_batch[i].task] = 1]_vars
    /\ \A i \in WorkerIds : \A t \in Tasks :
          (w_pc[i] = "put" /\ w_batch[i].task = t) ~> (enqueued[t] = 1)

\* A worker holds a batch at the put while the queue is full.
C2_Witness ==
    /\ Len(write_q) = QueueCap
    /\ \E i \in WorkerIds : w_pc[i] = "put" /\ w_batch[i].kind = "batch"

ChunkTasks(i) == {<<ChunkPair(i, k), win>> : k \in 1..ChunkLen(i), win \in 1..num_windows}

\* C17 as stated: every task whose post returned None after its last attempt
\* has added one to the run's error counter.  Violated: the worker skips such
\* a task without counting it.
C17_ExhaustedCounted ==
    o_pc = "done" => counters.errors >= n_exhausted

\* C18: a task whose request raised or ran out of attempts does not end its
\* worker: the worker goes on to its next task, which it has not attempted
\* yet, or to its end when the task was its last; a worker that reached its
\* end has attempted every task of its chunk.
C18_FailedTaskContinues ==
    /\ [](\A i \in WorkerIds :
             w_pc[i] \in {"finish", "done"} => ChunkTasks(i) \subseteq attempted)
    /\ [][\A i \in WorkerIds :
             (/\ w_pc[i] = "fetch"
              /\ TaskAt(i) \in attempted' \ attempted
              /\ \/ local_errors'[i] = local_errors[i] + 1
                 \/ n_exhausted' = n_exhausted + 1) =>
                 /\ w_pc'[i] \in {"fetch", "finish"}
                 /\ w_pc'[i] = "fetch" =>
                       /\ w_pos'[i] # w_pos[i]
                       /\ <<ChunkPair(i, w_pos'[i].k), w_pos'[i].win>>
                              \in ChunkTasks(i) \ attempted'
                 /\ w_pc'[i] = "finish" => ChunkTasks(i) \subseteq attempted']_vars

\* A worker with two tasks is done; the request of one raised and the other
\* ran out of attempts.
C18_Witness ==
    \E i \in WorkerIds :
        /\ w_pc[i] = "done"
        /\ Cardinality(ChunkTasks(i)) = 2
        /\ local_errors[i] = 1
        /\ n_exhausted = 1

\* C20 as stated: an endpoint-discovery failure does not abort the crawl run.
\* Violated: the only discovery of a run is the one of the orchestrator's
\* probe session, and its exception leaves scrape_schedules before the writer
\* and the workers are started.
C20_DiscoveryFailureScoped ==
    o_pc # "raised"

\* C27: no worker is started before the writer thread; the sentinel is put
\* when every submitted worker has returned or raised, not before; the final
\* commit and tally of the orchestrator come when the writer has exited.
C27_OrchestrationOrder ==
    /\ [](\A i \in WorkerIds : w_pc[i] # "unstarted" => wr_starts = 1)
    /\ [][((\E k \in 1..Len(write_q') : write_q'[k] = _SENTINEL)
              /\ ~(\E k \in 1..Len(write_q) : write_q[k] = _SENTINEL))
             => PoolDone /\ o_pc = "sentinel" /\ wr_pc = "running"]_vars
    /\ [][(o_pc' = "done" /\ o_pc # "done") =>
             /\ wr_pc = "exited" /\ PoolDone /\ write_q = <<>>
             /\ LogEntry("main", "commit") \in db_log']_vars
    /\ [](o_pc \in {"join", "done"} => PoolDone)

\* A run of two workers is over: both are done, the writer has exited and the
\* orchestrator has committed.
C27_Witness ==
    /\ o_pc = "done" /\ n_workers = 2
    /\ \A i \in WorkerIds : w_pc[i] = "done"
    /\ wr_pc = "exited" /\ db_committed # {}

\* C28: after any item but the sentinel the schedule rows the writer has
\* counted since its last commit are fewer than COMMIT_ROWS, and the writer
\* commits only on the sentinel or when the item brings that count to
\* COMMIT_ROWS or more.
C28_CommitThreshold ==
    /\ [](batch_sched < COMMIT_ROWS)
    /\ [][(/\ wr_pc = "running" /\ write_q # <<>> /\ write_q' = Tail(write_q)
           /\ \/ db_committed' # db_committed
              \/ LogEntry("writer", "commit") \in db_log' \ db_log
              \/ counters' # counters)
             => \/ Head(write_q) = _SENTINEL
                \/ batch_sched + Head(write_q).sched >= COMMIT_ROWS]_vars
    /\ [][(/\ wr_pc = "running" /\ write_q # <<>> /\ write_q' = Tail(write_q)
           /\ Head(write_q) # _SENTINEL
           /\ batch_sched + Head(write_q).sched < COMMIT_ROWS)
             => /\ db_committed' = db_committed
                /\ batch_sched' = batch_sched + Head(write_q).sched]_vars

\* The writer is still running and has committed on the threshold: the rows of
\* two batches made exactly COMMIT_ROWS schedule rows.
C28_Witness ==
    /\ wr_pc = "running" /\ batch_sched = 0
    /\ counters.sched = COMMIT_ROWS
    /\ Cardinality(db_committed) = 2 /\ db_open = {}

\* ==================================================== interrupt and failure
\* A crawl run in which the main thread gets a KeyboardInterrupt, or a store
\* statement of the writer raises.  Here the writer is also seen between two
\* rows of a batch.

FaultIdle ==
    /\ ft_pc = "none" /\ ft_queued = {} /\ ft_item = NoBatch
    /\ ft_part_open = {} /\ ft_part_committed = {}

\* The writer takes a batch of two rows or more and executes the first of
\* them.                                                     schedules.py:112-128
WriterBeginBatch ==
    /\ wr_pc = "running"
    /\ StoreOpen
    /\ write_q # <<>>
    /\ Head(write_q) # _SENTINEL
    /\ Head(write_q).sched + Head(write_q).fare >= 2
    /\ write_q' = Tail(write_q)
    /\ ft_item' = Head(write_q)
    /\ ft_part_open' = ft_part_open \cup {Head(write_q).task}
    /\ db_log' = db_log \cup {LogEntry("writer", "execute")}
    /\ wr_pc' = "midbatch"
    /\ UNCHANGED <<o_pc, n_pairs, num_windows, workers, n_workers, w_pc, w_pos, w_batch,
                   local_errors, wr_starts, pg_pc, batch_sched, batch_fare, counters,
                   db_open, db_committed, enqueued>>
    /\ UNCHANGED <<attempted, n_exhausted, put_rows>>
    /\ UNCHANGED <<ft_pc, ft_queued, ft_part_committed>>
    /\ UNCHANGED <<pairVars, staleVars, retryVars, harvestVars, throttleVars,
                    sessionVars, planVars, storeVars, parseVars>>

\* The writer executes the other rows of the batch it is in, then counts and
\* checks the threshold.  The rows are whole in the open transaction unless a
\* commit of the main thread came in between.                schedules.py:120-147
WriterEndBatch ==
    /\ wr_pc = "midbatch"
    /\ StoreOpen
    /\ LET task == ft_item.task
           whole == task \notin ft_part_committed
       IN  IF ReachedThreshold(batch_sched + ft_item.sched)
           THEN /\ db_committed' = db_committed \cup db_open \cup {task}
                /\ db_open' = {}
                /\ ft_part_open' = {}
                /\ ft_part_committed' = ft_part_committed \ {task}
                /\ db_log' = db_log \cup {[thread |-> "writer", op |-> "execute",
                                           writer_running |-> TRUE],
                                          [thread |-> "writer", op |-> "commit",
                                           writer_running |-> TRUE]}
                /\ counters' = [counters EXCEPT !.sched = @ + batch_sched + ft_item.sched,
                                                !.fare = @ + batch_fare + ft_item.fare]
                /\ batch_sched' = 0
                /\ batch_fare' = 0
           ELSE /\ db_open' = IF whole THEN db_open \cup {task} ELSE db_open
                /\ ft_part_open' = IF whole THEN ft_part_open \ {task}
                                   ELSE ft_part_open \cup {task}
                /\ db_log' = db_log \cup {[thread |-> "writer", op |-> "execute",
                                           writer_running |-> TRUE]}
                /\ batch_sched' = batch_sched + ft_item.sched
                /\ batch_fare' = batch_fare + ft_item.fare
                /\ UNCHANGED <<db_committed, counters, ft_part_committed>>
    /\ ft_item' = NoBatch
    /\ wr_pc' = "running"
    /\ UNCHANGED <<o_pc, n_pairs, num_windows, workers, n_workers, w_pc, w_pos, w_batch,
                   local_errors, write_q, wr_starts, pg_pc, enqueued>>
    /\ UNCHANGED <<attempted, n_exhausted, put_rows>>
    /\ UNCHANGED <<ft_pc, ft_queued>>
    /\ UNCHANGED <<pairVars, staleVars, retryVars, harvestVars, throttleVars,
                    sessionVars, planVars, storeVars, parseVars>>

\* A store statement of the writer raises (a FOREIGN KEY violation with
\* foreign_keys=ON, a closed connection): _db_writer has no handler, the
\* exception ends the thread.  The rows executed before stay in the open
\* transaction.                                 schedules.py:112-137, db.py:91-95
WriterRaise ==
    /\ \/ /\ wr_pc = "running"
          /\ write_q # <<>>
          /\ Head(write_q) # _SENTINEL
          /\ write_q' = Tail(write_q)
          /\ ft_item' = Head(write_q)
       \/ /\ wr_pc = "midbatch"
          /\ UNCHANGED <<write_q, ft_item>>
    /\ wr_pc' = "failed"
    /\ UNCHANGED <<o_pc, n_pairs, num_windows, workers, n_workers, w_pc, w_pos, w_batch,
                   local_errors, wr_starts, pg_pc, batch_sched, batch_fare, counters,
                   db_open, db_committed, db_log, enqueued>>
    /\ UNCHANGED <<attempted, n_exhausted, put_rows>>
    /\ UNCHANGED <<ft_pc, ft_queued, ft_part_open, ft_part_committed>>
    /\ UNCHANGED <<pairVars, staleVars, retryVars, harvestVars, throttleVars,
                    sessionVars, planVars, storeVars, parseVars>>

\* Batches on the write queue.
QueuedTasks == {write_q[k].task : k \in {j \in 1..Len(write_q) : write_q[j].kind = "batch"}}

\* KeyboardInterrupt in the main thread while it is in scrape_schedules with
\* the writer started.  Raised inside the with-block of the pool, the
\* exception first goes through the exit of the block.
\*                                              schedules.py:284-302, scrape.py:156
Interrupt ==
    /\ ft_pc = "none"
    /\ o_pc \in {"submit", "pool", "sentinel", "join"}
    /\ ft_queued' = QueuedTasks
    /\ ft_pc' = IF o_pc = "pool" THEN "shutdown" ELSE "handler"
    /\ o_pc' = "interrupted"
    /\ UNCHANGED <<n_pairs, num_windows, workers, n_workers, w_pc, w_pos, w_batch,
                   local_errors, write_q, wr_pc, wr_starts, pg_pc, batch_sched, batch_fare,
                   counters, db_open, db_committed, db_log, enqueued>>
    /\ UNCHANGED <<attempted, n_exhausted, put_rows>>
    /\ UNCHANGED <<ft_item, ft_part_open, ft_part_committed>>
    /\ UNCHANGED <<pairVars, staleVars, retryVars, harvestVars, throttleVars,
                    sessionVars, planVars, storeVars, parseVars>>

\* The exit of the with-block: ThreadPoolExecutor shuts down and waits for the
\* workers; then the exception leaves scrape_schedules, past the put of the
\* sentinel and the join.                                   schedules.py:284-298
PoolShutdown ==
    /\ ft_pc = "shutdown"
    /\ PoolDone
    /\ ft_pc' = "handler"
    /\ UNCHANGED <<crawlVars, ft_queued, ft_item, ft_part_open, ft_part_committed>>
    /\ UNCHANGED <<pairVars, staleVars, retryVars, harvestVars, throttleVars,
                    sessionVars, planVars, storeVars, parseVars>>

\* except KeyboardInterrupt: conn.commit()                     scrape.py:156-158
HandlerCommit ==
    /\ ft_pc = "handler"
    /\ db_committed' = db_committed \cup db_open
    /\ db_open' = {}
    /\ ft_part_committed' = ft_part_committed \cup ft_part_open
    /\ ft_part_open' = {}
    /\ db_log' = db_log \cup {LogEntry("main", "commit")}
    /\ ft_pc' = "summary"
    /\ UNCHANGED <<o_pc, n_pairs, num_windows, workers, n_workers, w_pc, w_pos, w_batch,
                   local_errors, write_q, wr_pc, wr_starts, pg_pc, batch_sched, batch_fare,
                   counters, enqueued>>
    /\ UNCHANGED <<attempted, n_exhausted, put_rows>>
    /\ UNCHANGED <<ft_queued, ft_item>>
    /\ UNCHANGED <<pairVars, staleVars, retryVars, harvestVars, throttleVars,
                    sessionVars, planVars, storeVars, parseVars>>

\* print_summary(conn, db_path)                                    scrape.py:159
HandlerSummary ==
    /\ ft_pc = "summary"
    /\ ft_pc' = "reported"
    /\ UNCHANGED <<crawlVars, ft_queued, ft_item, ft_part_open, ft_part_committed>>
    /\ UNCHANGED <<pairVars, staleVars, retryVars, harvestVars, throttleVars,
                    sessionVars, planVars, storeVars, parseVars>>

\* finally: conn.close().  What the open transaction holds is rolled back.
\*                                                             scrape.py:160-161
HandlerClose ==
    /\ ft_pc = "reported"
    /\ db_open' = {}
    /\ ft_part_open' = {}
    /\ ft_pc' = "closed"
    /\ UNCHANGED <<o_pc, n_pairs, num_windows, workers, n_workers, w_pc, w_pos, w_batch,
                   local_errors, write_q, wr_pc, wr_starts, pg_pc, batch_sched, batch_fare,
                   counters, db_committed, db_log, enqueued>>
    /\ UNCHANGED <<attempted, n_exhausted, put_rows>>
    /\ UNCHANGED <<ft_queued, ft_item, ft_part_committed>>
    /\ UNCHANGED <<pairVars, staleVars, retryVars, harvestVars, throttleVars,
                    sessionVars, planVars, storeVars, parseVars>>

C29_BatchAtomic ==
    ft_part_committed = {}

\* ================================================================ throttle
\* The module-level rate limiter of api.py and the requests the workers'
\* sessions send through it.  Time is counted in quarter seconds; a thread
\* can be held up between any two of its steps while the clock goes on.

\* _MIN_INTERVAL = 0.5 (seconds), in quarter seconds.                  api.py:42
_MIN_INTERVAL == 2
\* _throttle_lock when no thread holds it.                             api.py:40
Unlocked == -1
\* Seconds (in quarter seconds) a backoff sleep of the client can last.
BackoffSleeps == {1, 3}

ThrottleIdle ==
    /\ th_clock = 0 /\ th_lock = Unlocked /\ th_last = 0
    /\ th_pc = [i \in WorkerIds |-> "off"]
    /\ th_wake = [i \in WorkerIds |-> 0]
    /\ th_sends = <<>>

\* The workers are about to send their first request.  _last_request_time is
\* 0.0 and time.time() is far later than _MIN_INTERVAL after the epoch.
ThrottleStart ==
    /\ th_clock = _MIN_INTERVAL /\ th_lock = Unlocked /\ th_last = 0
    /\ th_pc = [i \in WorkerIds |-> "call"]
    /\ th_wake = [i \in WorkerIds |-> 0]
    /\ th_sends = <<>>

\* The clock goes on.
Tick ==
    /\ th_clock < MaxClock
    /\ th_clock' = th_clock + 1
    /\ UNCHANGED <<th_lock, th_last, th_pc, th_wake, th_sends>>
    /\ UNCHANGED <<pairVars, staleVars, retryVars, crawlVars, harvestVars,
                    sessionVars, planVars, storeVars, faultVars, parseVars>>

\* _throttle(): with _throttle_lock                                 api.py:48
ThrottleEnter(i) ==
    /\ th_pc[i] = "call"
    /\ th_lock = Unlocked
    /\ th_lock' = i
    /\ th_pc' = [th_pc EXCEPT ![i] = "locked"]
    /\ UNCHANGED <<th_clock, th_last, th_wake, th_sends>>
    /\ UNCHANGED <<pairVars, staleVars, retryVars, crawlVars, harvestVars,
                    sessionVars, planVars, storeVars, faultVars, parseVars>>

\* now = time.time(); wait = _MIN_INTERVAL - (now - _last_request_time);
\* if wait > 0: time.sleep(wait)                                 api.py:49-52
ThrottleMeasure(i) ==
    /\ th_pc[i] = "locked"
    /\ LET now == th_clock
           wait == _MIN_INTERVAL - (now - th_last)
       IN  IF wait > 0
           THEN /\ th_wake' = [th_wake EXCEPT ![i] = now + wait]
                /\ th_pc' = [th_pc EXCEPT ![i] = "sleep"]
           ELSE /\ th_pc' = [th_pc EXCEPT ![i] = "stamp"]
                /\ UNCHANGED th_wake
    /\ UNCHANGED <<th_clock, th_lock, th_last, th_sends>>
    /\ UNCHANGED <<pairVars, staleVars, retryVars, crawlVars, harvestVars,
                    sessionVars, planVars, storeVars, faultVars, parseVars>>

\* time.sleep(wait) returns, not before wait has gone by.           api.py:52
ThrottleWake(i) ==
    /\ th_pc[i] = "sleep"
    /\ th_clock >= th_wake[i]
    /\ th_pc' = [th_pc EXCEPT ![i] = "stamp"]
    /\ UNCHANGED <<th_clock, th_lock, th_last, th_wake, th_sends>>
    /\ UNCHANGED <<pairVars, staleVars, retryVars, crawlVars, harvestVars,
                    sessionVars, planVars, storeVars, faultVars, parseVars>>

\* Mutant of WithBlockExit: the lock stays with the thread after _throttle().
WithBlockExitHeld(i) == i

\* The end of "with _throttle_lock" in _throttle: the lock is released when
\* the function returns, before the request and any backoff.    api.py:48-53
WithBlockExit(i) == Unlocked

\* _last_request_time = time.time(), and the end of the with block. api.py:53
ThrottleStamp(i) ==
    /\ th_pc[i] = "stamp"
    /\ th_last' = th_clock
    /\ th_lock' = WithBlockExit(i)
    /\ th_pc' = [th_pc EXCEPT ![i] = "send"]
    /\ UNCHANGED <<th_clock, th_wake, th_sends>>
    /\ UNCHANGED <<pairVars, staleVars, retryVars, crawlVars, harvestVars,
                    sessionVars, planVars, storeVars, faultVars, parseVars>>

\* resp = sess.post(url, ...) after _throttle() has returned, and what the
\* response makes the client do: return or go on with the next attempt at
\* once, or sleep a backoff first.              api.py:110, 124, 135, 151
SendRequest(i) ==
    /\ th_pc[i] = "send"
    /\ Len(th_sends) < MaxSends
    /\ th_sends' = Append(th_sends, [w |-> i, t |-> th_clock])
    /\ \/ /\ th_pc' = [th_pc EXCEPT ![i] = "call"]
          /\ UNCHANGED th_wake
       \/ \E d \in BackoffSleeps :
             /\ th_pc' = [th_pc EXCEPT ![i] = "backoff"]
             /\ th_wake' = [th_wake EXCEPT ![i] = th_clock + d]
    /\ UNCHANGED <<th_clock, th_lock, th_last>>
    /\ UNCHANGED <<pairVars, staleVars, retryVars, crawlVars, harvestVars,
                    sessionVars, planVars, storeVars, faultVars, parseVars>>

\* The backoff sleep of the client is over.               api.py:124, 135, 151
BackoffWake(i) ==
    /\ th_pc[i] = "backoff"
    /\ th_clock >= th_wake[i]
    /\ th_pc' = [th_pc EXCEPT ![i] = "call"]
    /\ UNCHANGED <<th_clock, th_lock, th_last, th_wake, th_sends>>
    /\ UNCHANGED <<pairVars, staleVars, retryVars, crawlVars, harvestVars,
                    sessionVars, planVars, storeVars, faultVars, parseVars>>

\* C39: a worker that sends, sleeps a retry backoff or is between two
\* requests does not hold the throttle lock; the lock is held only inside
\* _throttle, and a holder that sleeps there sleeps the rest of the minimum
\* interval since the last stamp, never more than the minimum interval.
C39_BackoffOutsideThrottle ==
    /\ \A i \in WorkerIds :
          th_pc[i] \in {"call", "send", "backoff"} => th_lock # i
    /\ \A i \in WorkerIds :
          th_lock = i <=> th_pc[i] \in {"locked", "sleep", "stamp"}
    /\ \A i \in WorkerIds :
          th_pc[i] = "sleep" =>
              /\ th_wake[i] = th_last + _MIN_INTERVAL
              /\ th_last <= th_clock
              /\ th_wake[i] - th_clock <= _MIN_INTERVAL

\* One worker is asleep in a backoff after its request, and another worker has
\* gone through the throttle after that request and is about to send.
C39_Witness ==
    \E i, j \in WorkerIds :
        /\ i # j
        /\ th_pc[i] = "backoff" /\ th_clock < th_wake[i]
        /\ th_pc[j] = "send"
        /\ th_sends # <<>>
        /\ th_sends[Len(th_sends)].w = i
        /\ th_last > th_sends[Len(th_sends)].t

\* C13: between any two requests sent by any workers' sessions at least
\* _MIN_INTERVAL elapses.  Violated: _throttle() has returned and released the
\* lock before the request is sent, so a worker held up between the two sends
\* its request when a later worker, let through by the gate, sends its own.
C13_MinIntervalBetweenSends ==
    \A j, k \in 1..Len(th_sends) :
        j < k => th_sends[k].t - th_sends[j].t >= _MIN_INTERVAL

\* ============================================================ plan of a run
\* The windows and the chunks scrape_schedules makes before it starts its
\* threads, and the order in which a worker goes through its tasks.

MAX_WINDOW_DAYS == 42

\* now + timedelta(days=n)                                   schedules.py:236-237
PlusDays(t, n) == [t EXCEPT !.day = @ + n]

\* strftime("%Y-%m-%d"): the date of the instant, a day number.  schedules.py:238
strftime(t) == t.day

\* Mutant of WindowAt: the end date is taken as included and pushed one day on.
WindowAtEndPushed(now, period) ==
    <<strftime(PlusDays(now, period * MAX_WINDOW_DAYS)),
      strftime(PlusDays(now, (period + 1) * MAX_WINDOW_DAYS + 1))>>

\* One pass of the for-loop over range(num_windows).          schedules.py:235-238
WindowAt(now, period) ==
    <<strftime(PlusDays(now, period * MAX_WINDOW_DAYS)),
      strftime(PlusDays(now, (period + 1) * MAX_WINDOW_DAYS))>>

\* windows, after the loop.                                   schedules.py:234-238
Windows(now, n) == [k \in 1..n |-> WindowAt(now, k - 1)]

\* pairs[start::step], start counted from 0.                      schedules.py:264
RECURSIVE SliceFrom(_, _, _)
SliceFrom(pairs, start, step) ==
    IF start + 1 > Len(pairs) THEN <<>>
    ELSE <<pairs[start + 1]>> \o SliceFrom(pairs, start + step, step)

\* Mutant of Chunk: pairs[i:], the rest of the list from position i on.
ChunkContiguous(pairs, i, n) == SliceFrom(pairs, i, 1)

\* pairs[i::n_workers]                                            schedules.py:264
Chunk(pairs, i, n) == SliceFrom(pairs, i, n)

\* chunks = [pairs[i::n_workers] for i in range(n_workers)]; chunks[i] of the
\* program is Chunks(pairs, n)[i + 1].                            schedules.py:264
Chunks(pairs, n) == [k \in 1..n |-> Chunk(pairs, k - 1, n)]

\* The tasks of a worker in the order of its two for-loops: every window of
\* its first pair, then every window of its second pair, and so on.
\*                                                            schedules.py:159-160
RECURSIVE WorkerTasks(_, _, _)
WorkerTasks(my_pairs, windows, k) ==
    IF k > Len(my_pairs) THEN <<>>
    ELSE [w \in 1..Len(windows) |-> <<my_pairs[k], windows[w]>>]
             \o WorkerTasks(my_pairs, windows, k + 1)

PlanNows == [day : 0..MaxStartDay, us : Micros]

PlanIdle ==
    /\ pl_pc = "off" /\ pl_now = [day |-> 0, us |-> 0] /\ pl_num_windows = 0
    /\ pl_pairs = <<>> /\ pl_workers = 0 /\ pl_windows = <<>> /\ pl_chunks = <<>>

\* scrape_schedules with a non-empty list of pairs, at line 231.  The pairs
\* are all different (they come from _pair_routes) and stand as 1, 2, ...
\*                                                            schedules.py:199-231
PlanStart ==
    /\ pl_pc = "start"
    /\ pl_now \in PlanNows
    /\ pl_num_windows \in 0..MaxPlanWindows
    /\ pl_pairs \in {[k \in 1..n |-> k] : n \in 1..MaxPlanPairs}
    /\ pl_workers \in 1..MaxPlanWorkers
    /\ pl_windows = <<>> /\ pl_chunks = <<>>

\* The windows, n_workers and the chunks.                     schedules.py:231-264
Plan ==
    /\ pl_pc = "start"
    /\ pl_windows' = Windows(pl_now, pl_num_windows)
    /\ LET n_w == Min(pl_workers, Len(pl_pairs))
       IN  pl_chunks' = Chunks(pl_pairs, n_w)
    /\ pl_pc' = "planned"
    /\ UNCHANGED <<pl_now, pl_num_windows, pl_pairs, pl_workers>>
    /\ UNCHANGED <<pairVars, staleVars, retryVars, crawlVars, harvestVars, throttleVars,
                    sessionVars, storeVars, faultVars, parseVars>>

\* C22: num_windows = N gives N windows; read as [start, end), each spans
\* MAX_WINDOW_DAYS days and no more, no two of them share a day, and together
\* they hold every day from the date of now up to, not including, that date
\* plus N * MAX_WINDOW_DAYS, and no other day.
C22_WindowPlan ==
    pl_pc = "planned" =>
        LET first == strftime(pl_now)
            last == first + pl_num_windows * MAX_WINDOW_DAYS
            In(d, w) == w[1] <= d /\ d < w[2]
        IN  /\ Len(pl_windows) = pl_num_windows
            /\ \A k \in 1..Len(pl_windows) :
                  /\ pl_windows[k][1] < pl_windows[k][2]
                  /\ pl_windows[k][2] - pl_windows[k][1] <= MAX_WINDOW_DAYS
                  /\ first <= pl_windows[k][1] /\ pl_windows[k][2] <= last
            /\ \A j, k \in 1..Len(pl_windows) :
                  j # k => ~\E d \in first..last :
                               In(d, pl_windows[j]) /\ In(d, pl_windows[k])
            /\ \A d \in first..(last - 1) :
                  \E k \in 1..Len(pl_windows) : In(d, pl_windows[k])

\* Three windows were planned from an instant that is not midnight.
C22_Witness ==
    /\ pl_pc = "planned" /\ pl_num_windows = 3 /\ Len(pl_windows) = 3
    /\ pl_now.day = 1 /\ pl_now.us # 0
    /\ pl_windows[3][2] = 1 + 3 * MAX_WINDOW_DAYS

\* The tasks of the worker of chunk k of the plan.
PlanTasks(k) == WorkerTasks(pl_chunks[k], pl_windows, 1)

\* C26: there is one chunk per worker, the chunks are pairwise disjoint,
\* together hold every pair once, and their sizes differ by at most one;
\* every (pair, window) task is in the task list of exactly one worker, once.
C26_ChunkPartition ==
    pl_pc = "planned" =>
        LET n == Len(pl_chunks)
        IN  /\ n = Min(pl_workers, Len(pl_pairs))
            /\ \A i, j \in 1..n :
                  /\ i # j => Range(pl_chunks[i]) \cap Range(pl_chunks[j]) = {}
                  /\ Len(pl_chunks[i]) - Len(pl_chunks[j]) <= 1
            /\ \A i \in 1..n : Cardinality(Range(pl_chunks[i])) = Len(pl_chunks[i])
            /\ UNION {Range(pl_chunks[i]) : i \in 1..n} = Range(pl_pairs)
            /\ \A p \in Range(pl_pairs) : \A w \in Range(pl_windows) :
                  Cardinality({ik \in (1..n) \X (1..(MaxPlanPairs + 1) * (MaxPlanWindows + 1)) :
                                  /\ ik[2] <= Len(PlanTasks(ik[1]))
                                  /\ PlanTasks(ik[1])[ik[2]] = <<p, w>>}) = 1

\* Five pairs went to three workers, in chunks of two, two and one pair, with
\* two windows each.
C26_Witness ==
    /\ pl_pc = "planned" /\ Len(pl_pairs) = 5 /\ pl_num_windows = 2
    /\ Len(pl_chunks) = 3
    /\ pl_chunks[1] = <<1, 4>> /\ pl_chunks[2] = <<2, 5>> /\ pl_chunks[3] = <<3>>
    /\ Len(PlanTasks(1)) = 4

\* ================================================================ sessions
\* The WizzairSession objects of the workers of one run and the
\* requests.Session objects they hold.  Objects are numbered in the order they
\* are made; object 1 is the Session the probe made for its discovery.

\* Values of the RequestVerificationToken cookie; 0 stands for no cookie and
\* for no X-RequestVerificationToken header.
Tokens == {1, 2}

\* A requests.Session as _ensure_session leaves it: the fixed headers, no
\* cookie.                                                        api.py:68-71
FreshSession == [cookie |-> 0, header |-> 0]

\* Mutant of NewSession: every WizzairSession holds the one Session of the
\* module.
NewSessionShared(made) == 1

\* requests.Session(): an object that did not exist before.         api.py:70
NewSession(made) == made + 1

\* _ensure_session on a WizzairSession whose _session is `session`. api.py:68-71
_ensure_session(session, made, obj) ==
    IF session # 0
    THEN [session |-> session, made |-> made, obj |-> obj]
    ELSE [session |-> NewSession(made), made |-> made + 1,
          obj |-> Append(obj, FreshSession)]

\* _sync_token: the cookie, when there is one, becomes the header.  api.py:95-98
_sync_token(o) == IF o.cookie # 0 THEN [o EXCEPT !.header = o.cookie] ELSE o

\* Mutant of DiscardSession: the discard is done by _reset, which clears the
\* base as well.
DiscardSessionReset(api_base) == "none"

\* What post leaves of self._api_base when it discards the session on a
\* 429/503 or a 400: self._session = None and nothing else.  api.py:121, 134
DiscardSession(api_base) == api_base

SessionIdle ==
    /\ se_pc = [i \in WorkerIds |-> "off"]
    /\ se_session = [i \in WorkerIds |-> 0]
    /\ se_api_base = [i \in WorkerIds |-> "none"]
    /\ se_shared = "none" /\ se_obj = <<>> /\ se_made = 0 /\ se_discoveries = 0

\* The workers have been submitted: the probe has discovered the base with a
\* Session of its own, and every worker has built its WizzairSession with the
\* shared base and no Session.           schedules.py:250-252, 155; api.py:63-66
SessionStart ==
    /\ se_shared = "base"
    /\ se_obj = <<FreshSession>> /\ se_made = 1 /\ se_discoveries = 1
    /\ se_pc = [i \in WorkerIds |-> "idle"]
    /\ se_session = [i \in WorkerIds |-> 0]
    /\ se_api_base = [i \in WorkerIds |-> se_shared]

\* The head of post on the session of worker i: _base() returns the base the
\* session was built with, _ensure_session makes the Session when there is
\* none.                                                     api.py:102-105
SessionBegin(i) ==
    /\ se_pc[i] = "idle"
    /\ se_session[i] # 0 \/ se_made < MaxObjects
    /\ \E page \in (IF se_api_base[i] = "none" THEN Pages ELSE {"pattern"}) :
          LET b == _base(se_api_base[i], page)
              e == _ensure_session(se_session[i], se_made, se_obj)
          IN  /\ se_discoveries' = se_discoveries
                                      + (IF se_api_base[i] = "none" THEN 1 ELSE 0)
              /\ se_api_base' = [se_api_base EXCEPT ![i] = b.api_base]
              /\ se_session' = [se_session EXCEPT ![i] = e.session]
              /\ se_made' = e.made
              /\ se_obj' = e.obj
              /\ se_pc' = [se_pc EXCEPT ![i] = IF b.raised THEN "idle" ELSE "loop"]
    /\ UNCHANGED se_shared
    /\ UNCHANGED <<pairVars, staleVars, retryVars, crawlVars, harvestVars, throttleVars,
                    planVars, storeVars, faultVars, parseVars>>

\* The attempt numbers that matter to the session: one that is not the last
\* of its call, and the last.                                 api.py:107, 132
AttemptKinds == {1, _POST_RETRIES}

\* One pass of the for-loop of post on the session of worker i.  The response
\* can set the cookie of the Session the request was sent on; a 200 syncs the
\* token, a 429/503 and a 400 with an attempt left drop the Session and make
\* a new one.                                                 api.py:107-155
SessionAttempt(i) ==
    /\ se_pc[i] = "loop"
    /\ \E resp \in Responses, attempt \in AttemptKinds, c \in Tokens \cup {0} :
          LET k == se_session[i]
              got == IF c # 0 /\ resp # "exc"
                     THEN [se_obj EXCEPT ![k].cookie = c] ELSE se_obj
              branch == PostBranch(resp, attempt)
          IN  CASE branch = "ok" ->
                     /\ se_obj' = [got EXCEPT ![k] = _sync_token(@)]
                     /\ se_pc' = [se_pc EXCEPT ![i] = "idle"]
                     /\ UNCHANGED <<se_session, se_made, se_api_base>>
                [] branch \in {"rate_limited", "session_expired"} ->
                     /\ se_made < MaxObjects
                     /\ se_api_base' = [se_api_base EXCEPT ![i] = DiscardSession(@)]
                     /\ LET e == _ensure_session(0, se_made,
                                                 [got EXCEPT ![k] = FreshSession])
                        IN  /\ se_session' = [se_session EXCEPT ![i] = e.session]
                            /\ se_made' = e.made
                            /\ se_obj' = e.obj
                     /\ se_pc' = [se_pc EXCEPT ![i] =
                                     IF attempt < _POST_RETRIES THEN "loop" ELSE "idle"]
                [] branch = "not_found" ->
                     /\ se_obj' = got
                     /\ se_pc' = [se_pc EXCEPT ![i] = "idle"]
                     /\ UNCHANGED <<se_session, se_made, se_api_base>>
                [] OTHER ->
                     /\ se_obj' = got
                     /\ se_pc' = [se_pc EXCEPT ![i] =
                                     IF attempt < _POST_RETRIES THEN "loop" ELSE "idle"]
                     /\ UNCHANGED <<se_session, se_made, se_api_base>>
    /\ UNCHANGED <<se_shared, se_discoveries>>
    /\ UNCHANGED <<pairVars, staleVars, retryVars, crawlVars, harvestVars, throttleVars,
                    planVars, storeVars, faultVars, parseVars>>

\* What worker i can see of its session: the Session object it holds, the
\* cookie and the token header of that object, and its base URL.
SessionView(i) ==
    [session |-> se_session[i],
     state |-> IF se_session[i] = 0 THEN FreshSession ELSE se_obj[se_session[i]],
     api_base |-> se_api_base[i]]

\* C21: no two workers hold the same Session object and none holds the
\* probe's; a step that changes the session, the cookie or the token of one
\* worker leaves those of every other worker as they were; every worker's
\* base URL is the shared one, which no step changes.
C21_SessionIsolation ==
    /\ [](\A i \in WorkerIds :
             se_session[i] # 0 =>
                 /\ se_session[i] # 1
                 /\ \A j \in WorkerIds \ {i} : se_session[j] # se_session[i])
    /\ [](\A i \in WorkerIds : se_api_base[i] = se_shared)
    /\ [][/\ se_shared' = se_shared
          /\ \A i, j \in WorkerIds :
                (i # j /\ SessionView(i)' # SessionView(i)) =>
                    SessionView(j)' = SessionView(j)]_vars

\* C38: the only discovery request of a run is the probe's: every worker's
\* session has the shared base from its construction on, also after a session
\* discard, so no call of a worker goes into _discover_api.
C38_DiscoveryOnce ==
    /\ se_discoveries = 1
    /\ \A i \in WorkerIds : se_api_base[i] = "base"

\* A worker is in a call with a Session made after discards, and the probe's
\* discovery is still the only one.
C38_Witness ==
    /\ se_discoveries = 1
    /\ \E i \in WorkerIds :
          se_pc[i] = "loop" /\ se_session[i] > MaxWorkers + 1

\* A Session has been dropped and made anew, and two workers hold Sessions
\* with different tokens.
C21_Witness ==
    /\ se_made > MaxWorkers + 1
    /\ \E i, j \in WorkerIds :
          /\ se_session[i] # 0 /\ se_session[j] # 0
          /\ se_obj[se_session[i]].header = 1
          /\ se_obj[se_session[j]].header = 2

\* ============================================================ harvest runs
\* The rows a harvest leaves in schedules and fares.  The threads of a run only
\* decide the order in which the writer gets the batches; here a run hands the
\* batch of any pair not fetched yet to the writer.

\* A departure time as the upstream writes it, "<date>T<hh:mm:ss>", or a text
\* that does not split into a date and a time (ok = FALSE).
Departures ==
    {[date |-> 1, hhmm |-> 600, ss |-> x, ok |-> TRUE] : x \in {0, 30}}
        \cup {[date |-> 0, hhmm |-> 0, ss |-> 0, ok |-> FALSE]}
\* A flight of the response: its departureDates and whether it has a price.
Flights == [departureDates : DistinctSeqs(Departures, MaxDepartures), priced : BOOLEAN]
FlightLists == {<<>>} \cup {<<f>> : f \in Flights}
Prices == {10, 20}
HarvestRoutes == {<<1, 2>>, <<2, 1>>}

\* "W6-" + time_part.replace(":", "")[:4]                         schedules.py:91
FlightId(dep) == dep.hhmm

\* The rows one flight entry gives, schedule rows and fare rows.  schedules.py:74-102
RECURSIVE ParseDepartures(_, _, _, _, _, _, _)
ParseDepartures(deps, i, priced, price, origin, dest, scraped_at) ==
    IF i > Len(deps) THEN <<(<<>>), (<<>>)>>
    ELSE LET rest == ParseDepartures(deps, i + 1, priced, price, origin, dest, scraped_at)
             dep == deps[i]
             srow == [origin |-> origin, destination |-> dest, airline |-> AIRLINE,
                      date |-> dep.date, flight_number |-> FlightId(dep),
                      departure_time |-> <<dep.hhmm, dep.ss>>,
                      scraped_at |-> scraped_at]
             frow == [origin |-> origin, destination |-> dest, airline |-> AIRLINE,
                      departure_date |-> dep.date, price |-> price,
                      flight_number |-> FlightId(dep), scraped_at |-> scraped_at]
         IN  IF ~dep.ok THEN rest
             ELSE <<(<<srow>>) \o rest[1],
                    (IF priced THEN <<frow>> ELSE <<>>) \o rest[2]>>

\* _parse_flights(flights, origin, dest, scraped_at)           schedules.py:66-104
RECURSIVE ParseFrom(_, _, _, _, _, _)
ParseFrom(flights, i, price, origin, dest, scraped_at) ==
    IF i > Len(flights) THEN <<(<<>>), (<<>>)>>
    ELSE LET one == ParseDepartures(flights[i].departureDates, 1, flights[i].priced,
                                    price, origin, dest, scraped_at)
             rest == ParseFrom(flights, i + 1, price, origin, dest, scraped_at)
         IN  <<one[1] \o rest[1], one[2] \o rest[2]>>

_parse_flights(flights, price, origin, dest, scraped_at) ==
    ParseFrom(flights, 1, price, origin, dest, scraped_at)

\* The flightList of the payload: the pair as requested, then its reverse.
\*                                                            schedules.py:161-167
FlightList(a, b) == <<(<<a, b>>), (<<b, a>>)>>

\* The upstream's answer to a timetable request: the flights of the first
\* requested direction as outboundFlights, those of the second as
\* returnFlights.
TimetableResponse(up, flightList) ==
    [outboundFlights |-> up[flightList[1]], returnFlights |-> up[flightList[2]]]

\* Mutant of WorkerParse: both lists are stored under the direction of the
\* request.
WorkerParseAsRequested(data, price, a, b, scraped_at) ==
    LET p1 == _parse_flights(data.outboundFlights, price, a, b, scraped_at)
        p2 == _parse_flights(data.returnFlights, price, a, b, scraped_at)
    IN  <<p1[1] \o p2[1], p1[2] \o p2[2]>>

\* s1, f1 = _parse_flights(outboundFlights, a, b); s2, f2 = _parse_flights(
\* returnFlights, b, a); all_sched = s1 + s2; all_fare = f1 + f2.
\*                                                            schedules.py:184-190
WorkerParse(data, price, a, b, scraped_at) ==
    LET p1 == _parse_flights(data.outboundFlights, price, a, b, scraped_at)
        p2 == _parse_flights(data.returnFlights, price, b, a, scraped_at)
    IN  <<p1[1] \o p2[1], p1[2] \o p2[2]>>

\* UNIQUE(origin, destination, year, month, day, flight_number)        db.py:53
SchedKey(r) == <<r.origin, r.destination, r.date, r.flight_number>>

\* Mutant of InsertOrReplaceSchedule: a plain INSERT into a table without the
\* UNIQUE constraint.
InsertScheduleNoReplace(tbl, row, id) ==
    tbl \cup {[id |-> id, row |-> row]}

\* INSERT OR REPLACE INTO schedules: the row with the same unique key, if any,
\* is deleted and the new row is inserted.         schedules.py:121-128, db.py:40-56
InsertOrReplaceSchedule(tbl, row, id) ==
    {x \in tbl : SchedKey(x.row) # SchedKey(row)} \cup {[id |-> id, row |-> row]}

\* Mutant of InsertOrReplaceFare: fares unique per route, date and flight.
InsertFareReplacing(tbl, row, id) ==
    {x \in tbl : <<x.row.origin, x.row.destination, x.row.departure_date,
                   x.row.flight_number>>
                 # <<row.origin, row.destination, row.departure_date, row.flight_number>>}
        \cup {[id |-> id, row |-> row]}

\* INSERT OR REPLACE INTO fares: the table has no unique key but its rowid,
\* which is new for every insert.                  schedules.py:129-137, db.py:58-71
InsertOrReplaceFare(tbl, row, id) ==
    {x \in tbl : x.id # id} \cup {[id |-> id, row |-> row]}

\* The two for-loops of _db_writer over the rows of one item. schedules.py:120-137
RECURSIVE WriteSchedRows(_, _, _, _)
WriteSchedRows(tbl, rows, i, id) ==
    IF i > Len(rows) THEN tbl
    ELSE WriteSchedRows(InsertOrReplaceSchedule(tbl, rows[i], id), rows, i + 1, id + 1)
RECURSIVE WriteFareRows(_, _, _, _)
WriteFareRows(tbl, rows, i, id) ==
    IF i > Len(rows) THEN tbl
    ELSE WriteFareRows(InsertOrReplaceFare(tbl, rows[i], id), rows, i + 1, id + 1)

\* What _stale_routes reads of a schedules row.
SchedView(tbl) == {x.row : x \in tbl}
SchedKeys(tbl) == {SchedKey(x.row) : x \in tbl}

\* Well-formed departures of priced flights, counted on the upstream data.
RECURSIVE PricedIn(_, _)
PricedIn(flights, i) ==
    IF i > Len(flights) THEN 0
    ELSE (IF flights[i].priced
          THEN Cardinality({j \in 1..Len(flights[i].departureDates) :
                               flights[i].departureDates[j].ok})
          ELSE 0) + PricedIn(flights, i + 1)

HarvestIdle ==
    /\ hv_pc = "off" /\ hv_run = 0 /\ hv_routesTbl = <<>>
    /\ hv_up = [r \in HarvestRoutes |-> <<>>] /\ hv_down = FALSE
    /\ hv_now = [day |-> 0, us |-> 0] /\ hv_days = 0 /\ hv_zero = TRUE
    /\ hv_todo = {} /\ hv_sched = {} /\ hv_fare = {}
    /\ hv_ids = [sched |-> 1, fare |-> 1]
    /\ hv_prev = [keys |-> {}, count |-> 0]
    /\ hv_priced = 0

\* An empty store with the airline's routes, and what the upstream will answer
\* in every run.
HarvestStart ==
    /\ hv_pc = "idle" /\ hv_run = 0
    /\ hv_routesTbl \in
          {[i \in 1..Len(q) |-> [origin |-> q[i][1], destination |-> q[i][2],
                                 airline |-> AIRLINE]] :
              q \in DistinctSeqs(HarvestRoutes, 2) \ {<<>>}}
    /\ hv_up \in [HarvestRoutes -> FlightLists]
    /\ hv_down \in BOOLEAN
    /\ hv_now = [day |-> 0, us |-> 0] /\ hv_days = 0 /\ hv_zero = TRUE
    /\ hv_todo = {} /\ hv_sched = {} /\ hv_fare = {}
    /\ hv_ids = [sched |-> 1, fare |-> 1]
    /\ hv_prev = [keys |-> {}, count |-> 0]
    /\ hv_priced = 0

\* scrape_schedules up to the start of the workers: the routes are selected
\* and paired; without pairs the run is over.                schedules.py:209-232
HarvestBegin ==
    /\ hv_pc = "idle"
    /\ hv_run < MaxRuns
    /\ \E days_fresh \in 0..1 :
          LET now == [day |-> hv_run + 1, us |-> 0]
              routes == SelectRoutes(hv_routesTbl, SchedView(hv_sched), now, days_fresh)
              pairs == _pair_routes(routes)
          IN  /\ hv_now' = now
              /\ hv_days' = days_fresh
              /\ hv_zero' = (hv_zero /\ days_fresh = 0)
              /\ hv_todo' = Range(pairs)
              /\ hv_pc' = IF pairs = <<>> THEN "idle" ELSE "running"
    /\ hv_run' = hv_run + 1
    /\ hv_prev' = [keys |-> SchedKeys(hv_sched), count |-> Cardinality(hv_sched)]
    /\ UNCHANGED <<hv_routesTbl, hv_up, hv_down, hv_sched, hv_fare, hv_ids, hv_priced>>
    /\ UNCHANGED <<pairVars, staleVars, retryVars, crawlVars, throttleVars,
                    sessionVars, planVars, storeVars, faultVars, parseVars>>

\* One task from the request to the store: the worker parses both directions
\* of the response and puts the batch, the writer executes its rows.
\*                                                  schedules.py:161-192, 118-137
HarvestTask ==
    /\ hv_pc = "running"
    /\ \E pair \in hv_todo :
          /\ hv_todo' = hv_todo \ {pair}
          /\ \/ \* sess.post returned None
                /\ hv_down
                /\ UNCHANGED <<hv_sched, hv_fare, hv_ids, hv_priced>>
             \/ /\ ~hv_down
                /\ \E price \in Prices :
                      LET a == pair[1]
                          b == pair[2]
                          scraped_at == isoformat(hv_now)
                          data == TimetableResponse(hv_up, FlightList(a, b))
                          all == WorkerParse(data, price, a, b, scraped_at)
                          all_sched == all[1]
                          all_fare == all[2]
                      IN  /\ hv_sched' = WriteSchedRows(hv_sched, all_sched, 1, hv_ids.sched)
                          /\ hv_fare' = WriteFareRows(hv_fare, all_fare, 1, hv_ids.fare)
                          /\ hv_ids' = [sched |-> hv_ids.sched + Len(all_sched),
                                        fare |-> hv_ids.fare + Len(all_fare)]
                          /\ hv_priced' = hv_priced + PricedIn(hv_up[<<a, b>>], 1)
                                                    + PricedIn(hv_up[<<b, a>>], 1)
    /\ UNCHANGED <<hv_pc, hv_run, hv_routesTbl, hv_up, hv_down, hv_now, hv_days, hv_zero,
                   hv_prev>>
    /\ UNCHANGED <<pairVars, staleVars, retryVars, crawlVars, throttleVars,
                    sessionVars, planVars, storeVars, faultVars, parseVars>>

\* The end of the run: sentinel, final commits, return.      schedules.py:300-309
HarvestEnd ==
    /\ hv_pc = "running"
    /\ hv_todo = {}
    /\ hv_pc' = "idle"
    /\ UNCHANGED <<hv_run, hv_routesTbl, hv_up, hv_down, hv_now, hv_days, hv_zero, hv_todo,
                   hv_sched, hv_fare, hv_ids, hv_prev, hv_priced>>
    /\ UNCHANGED <<pairVars, staleVars, retryVars, crawlVars, throttleVars,
                    sessionVars, planVars, storeVars, faultVars, parseVars>>

\* C5: two full schedule harvests with threshold 0 over the same upstream data
\* leave the same schedule keys and the same number of schedule rows after the
\* second run as after the first: a re-fetched entry replaces the row of its
\* key (one row per key, carrying the later fetch time).
C5_Idempotent ==
    (hv_pc = "idle" /\ hv_run >= 2 /\ hv_zero) =>
        /\ SchedKeys(hv_sched) = hv_prev.keys
        /\ Cardinality(hv_sched) = hv_prev.count
        /\ Cardinality(hv_sched) = Cardinality(SchedKeys(hv_sched))
        /\ \A x \in hv_sched : x.row.scraped_at = isoformat(hv_now)

\* The second full run is over and the store holds rows of both directions.
C5_Witness ==
    /\ hv_pc = "idle" /\ hv_run = 2 /\ hv_zero
    /\ \E x, y \in hv_sched : x.row.origin = 1 /\ y.row.origin = 2
    /\ \E r \in HarvestRoutes : \E i \in 1..Len(hv_up[r]) :
          Cardinality({d \in Range(hv_up[r][i].departureDates) : d.ok}) = 2

\* Fare rows with the fetch time of run r.
FaresOfRun(r) == {x \in hv_fare : x.row.scraped_at = isoformat([day |-> r, us |-> 0])}

\* C6: fares are append-only: the writer adds one fare row for every priced
\* departure parsed and never replaces or deletes a stored fare row, so every
\* full run contributes its own row for each priced departure.
C6_FaresAppendOnly ==
    /\ [](Cardinality(hv_fare) = hv_priced)
    /\ [][hv_fare \subseteq hv_fare']_vars
    /\ []((hv_pc = "idle" /\ hv_zero /\ ~hv_down) =>
             \A r \in 1..hv_run :
                 Cardinality(FaresOfRun(r)) =
                     PricedIn(hv_up[<<1, 2>>], 1) + PricedIn(hv_up[<<2, 1>>], 1))

\* After two runs a departure has two fare rows, one per run, with two prices.
C6_Witness ==
    /\ hv_pc = "idle" /\ hv_run = 2
    /\ \E x, y \in hv_fare :
          /\ x.row.origin = y.row.origin /\ x.row.departure_date = y.row.departure_date
          /\ x.row.flight_number = y.row.flight_number
          /\ x.row.scraped_at # y.row.scraped_at
          /\ x.row.price # y.row.price

\* The well-formed departures the upstream lists for a directed route, as
\* <<date, hhmm, ss, priced>>.
UpstreamDepartures(route) ==
    {<<hv_up[route][i].departureDates[j].date, hv_up[route][i].departureDates[j].hhmm,
       hv_up[route][i].departureDates[j].ss, hv_up[route][i].priced>> :
        <<i, j>> \in {q \in (1..Len(hv_up[route])) \X (1..MaxDepartures) :
                         /\ q[2] <= Len(hv_up[route][q[1]].departureDates)
                         /\ hv_up[route][q[1]].departureDates[q[2]].ok}}

\* C12: every stored schedule row and fare row carries the (origin,
\* destination) of a direction in which the upstream lists that departure,
\* and after a full run every listed departure of either direction of a
\* stored route is stored under its own direction, whichever way round the
\* pair was requested.
C12_DirectionCorrect ==
    /\ \A x \in hv_sched :
          \E d \in UpstreamDepartures(<<x.row.origin, x.row.destination>>) :
              /\ d[1] = x.row.date
              /\ <<d[2], d[3]>> = x.row.departure_time
    /\ \A x \in hv_fare :
          \E d \in UpstreamDepartures(<<x.row.origin, x.row.destination>>) :
              /\ d[1] = x.row.departure_date
              /\ d[2] = x.row.flight_number
              /\ d[4]
    /\ (hv_pc = "idle" /\ hv_run >= 1 /\ hv_zero /\ ~hv_down) =>
          \A route \in HarvestRoutes : \A d \in UpstreamDepartures(route) :
              \E x \in hv_sched :
                  /\ <<x.row.origin, x.row.destination>> = route
                  /\ x.row.date = d[1]
                  /\ x.row.flight_number = d[2]

\* The pair was requested as (2,1), only the direction 1->2 has flights, and
\* they are stored as (1,2).
C12_Witness ==
    /\ hv_pc = "idle" /\ hv_run = 1 /\ ~hv_down
    /\ hv_routesTbl[1].origin = 2
    /\ hv_up[<<2, 1>>] = <<>>
    /\ hv_sched # {} /\ hv_fare # {}
    /\ \A x \in hv_sched : x.row.origin = 1 /\ x.row.destination = 2

\* ========================================================= schedules table
\* One INSERT OR REPLACE INTO schedules, of either harvester, against a table
\* that holds rows of both airlines.

\* Schedule rows of one route: two airlines, two dates, two flight numbers;
\* scraped_at tells the run that wrote the row.
StoreRows ==
    [origin : {1}, destination : {2}, airline : {AIRLINE, OtherAirline},
     date : {1, 2}, flight_number : {600, 700}, departure_time : {<<600, 0>>},
     scraped_at : {1, 2}]

\* The tables the UNIQUE constraint allows, of up to n rows with the rowids
\* 1..n.                                                            db.py:40-56
RECURSIVE StoreTables(_)
StoreTables(n) ==
    IF n = 0 THEN {{}}
    ELSE LET smaller == StoreTables(n - 1)
         IN  smaller \cup
             {t \cup {[id |-> n, row |-> r]} :
                 <<t, r>> \in {tr \in smaller \X StoreRows :
                                  /\ Cardinality(tr[1]) = n - 1
                                  /\ SchedKey(tr[2]) \notin SchedKeys(tr[1])}}

StoreIdle ==
    /\ sk_pc = "off" /\ sk_before = {} /\ sk_tbl = {}
    /\ sk_row = [origin |-> 1, destination |-> 2, airline |-> AIRLINE, date |-> 1,
                 flight_number |-> 600, departure_time |-> <<600, 0>>, scraped_at |-> 1]

StoreStart ==
    /\ sk_pc = "input"
    /\ sk_tbl \in StoreTables(MaxStoreRows)
    /\ sk_before = sk_tbl
    /\ sk_row \in StoreRows

\* conn.execute("INSERT OR REPLACE INTO schedules ...", row); the rowid of the
\* new row is past every rowid given so far.  schedules.py:120-128, db.py:40-56
StoreUpsert ==
    /\ sk_pc = "input"
    /\ sk_tbl' = InsertOrReplaceSchedule(sk_tbl, sk_row, Cardinality(sk_before) + 1)
    /\ sk_pc' = "done"
    /\ UNCHANGED <<sk_before, sk_row>>
    /\ UNCHANGED <<pairVars, staleVars, retryVars, crawlVars, harvestVars, throttleVars,
                    sessionVars, planVars, faultVars, parseVars>>

C36_TalliesExact ==
    /\ wr_pc = "exited" =>
          /\ counters.sched = put_rows.sched
          /\ counters.fare = put_rows.fare
    /\ wr_pc = "running" =>
          /\ put_rows.sched = counters.sched + batch_sched + QueuedRows(write_q, 1).sched
          /\ put_rows.fare = counters.fare + batch_fare + QueuedRows(write_q, 1).fare

\* The writer has exited after the batches of two workers reached the
\* threshold and were counted at the threshold commit.
C36_Witness ==
    /\ wr_pc = "exited"
    /\ put_rows.sched >= COMMIT_ROWS
    /\ batch_sched = 0
    /\ n_workers = MaxWorkers

\* C37: once the pool has completed, counters["done"] is the number of
\* selected pairs (so that the loop of the progress thread, which runs while
\* done < len(pairs), ends), in every run.
C37_DoneReachesPairs ==
    o_pc \in {"sentinel", "join", "done"} => counters.done = n_pairs

\* C40: a fetch refreshes freshness.  The first run, over an empty store,
\* fetches every pair; when all its requests were answered with data, the
\* second run, started one threshold later with a threshold > 0, selects no
\* route and so has no pair to fetch, also when the responses held no flight.
C40_FetchRefreshesFreshness ==
    (hv_run = 2 /\ ~hv_down /\ hv_days > 0) => (hv_todo = {} /\ hv_pc = "idle")

\* C33: with upstream calls that return and store statements that succeed, a
\* fairly scheduled crawl run terminates: scrape_schedules returns (or raises
\* out of the probe), and when it returns every worker has ended, the sentinel
\* was put and taken and the writer has exited; until then a worker, the
\* writer or the orchestrator can always take a step.
C33_CrawlTerminates ==
    /\ <>(o_pc \in {"done", "raised"})
    /\ [](o_pc = "done" =>
            /\ \A i \in WorkerIds : w_pc[i] \in {"unstarted", "done", "crashed"}
            /\ wr_pc = "exited"
            /\ write_q = <<>>)
    /\ [](o_pc \notin {"done", "raised"} =>
            ENABLED (\/ OrchStart \/ OrchSubmit \/ OrchPoolExit \/ OrchPutSentinel
                     \/ OrchJoinCommit \/ WriterStep
                     \/ \E i \in WorkerIds :
                           WorkerFetch(i) \/ WorkerPut(i) \/ WorkerFinish(i)))

\* A run of two workers over the most pairs has returned after its batches
\* went through the queue.
C33_Witness ==
    /\ o_pc = "done" /\ wr_pc = "exited"
    /\ n_workers = MaxWorkers /\ n_pairs = MaxPairs
    /\ Cardinality(EnqueuedTasks) >= 2

\* C34: after the writer has stopped on a store statement that raised, the
\* run still terminates: as long as scrape_schedules has not returned, a
\* worker or the orchestrator can take a step (none of them is blocked for
\* ever at a put on the full queue, and the join returns).
C34_TerminatesAfterWriterFailure ==
    (wr_pc = "failed" /\ o_pc \in {"pool", "sentinel", "join"}) =>
        ENABLED (\/ OrchPoolExit \/ OrchPutSentinel \/ OrchJoinCommit
                 \/ \E i \in WorkerIds :
                       WorkerFetch(i) \/ WorkerPut(i) \/ WorkerFinish(i))

\* ------------------------------------------- parsing one response (SpecParse)
\* A flight entry of the response: with a price amount, without one (price is
\* None), or with "price": null, on which price_info.get raises
\* AttributeError.                                         schedules.py:73-77
FlightKinds == {"priced", "unpriced", "null_price"}

\* An entry of departureDates: well formed; without the "T" (len(parts) != 2);
\* with a date strptime rejects (ValueError); not a string, on which
\* dep_dt.split raises AttributeError.                      schedules.py:79-89
DepKinds == {"ok", "no_T", "bad_date", "not_str"}

ParseIdle ==
    /\ pa_pc = "off" /\ pa_dir = 1 /\ pa_flights = 0 /\ pa_deps = 0
    /\ pa_priced = FALSE /\ pa_sched = <<>> /\ pa_fare = <<>> /\ pa_q = <<>>

\* sess.post returned a response with data; _parse_flights(outboundFlights)
\* begins.                                                schedules.py:181-185
ParseStart ==
    /\ pa_pc = "flight" /\ pa_dir = 1 /\ pa_flights = 0 /\ pa_deps = 0
    /\ pa_priced = FALSE /\ pa_sched = <<>> /\ pa_fare = <<>> /\ pa_q = <<>>

\* for flight in flights: the head of the loop body.  No handler is around
\* it: an exception leaves _parse_flights and then _worker, whose try block
\* holds sess.post only.                          schedules.py:73-77, 174-187
ParseFlight ==
    /\ pa_pc = "flight"
    /\ pa_flights < MaxParseFlights
    /\ \E kind \in FlightKinds :
          /\ pa_flights' = pa_flights + 1
          /\ pa_deps' = 0
          /\ pa_priced' = (kind = "priced")
          /\ pa_pc' = IF kind = "null_price" THEN "raised" ELSE "dep"
    /\ UNCHANGED <<pa_dir, pa_sched, pa_fare, pa_q>>
    /\ UNCHANGED <<pairVars, staleVars, retryVars, crawlVars, harvestVars, throttleVars,
                    sessionVars, planVars, storeVars, faultVars>>

\* for dep_dt in dep_dates: one entry.  An entry that does not split in two
\* and an entry whose date raises ValueError are skipped; a well-formed one
\* gives a schedule row and, if price is not None, a fare row.
\*                                                          schedules.py:79-102
ParseDeparture ==
    /\ pa_pc = "dep"
    /\ pa_deps < MaxParseDeps
    /\ \E kind \in DepKinds :
          LET row == <<pa_dir, pa_flights, pa_deps + 1>>
          IN  /\ pa_deps' = pa_deps + 1
              /\ pa_pc' = IF kind = "not_str" THEN "raised" ELSE "dep"
              /\ pa_sched' = IF kind = "ok" THEN Append(pa_sched, row) ELSE pa_sched
              /\ pa_fare' = IF kind = "ok" /\ pa_priced THEN Append(pa_fare, row)
                            ELSE pa_fare
    /\ UNCHANGED <<pa_dir, pa_flights, pa_priced, pa_q>>
    /\ UNCHANGED <<pairVars, staleVars, retryVars, crawlVars, harvestVars, throttleVars,
                    sessionVars, planVars, storeVars, faultVars>>

\* The departureDates of the flight entry are exhausted.       schedules.py:79
ParseFlightDone ==
    /\ pa_pc = "dep"
    /\ pa_pc' = "flight"
    /\ UNCHANGED <<pa_dir, pa_flights, pa_deps, pa_priced, pa_sched, pa_fare, pa_q>>
    /\ UNCHANGED <<pairVars, staleVars, retryVars, crawlVars, harvestVars, throttleVars,
                    sessionVars, planVars, storeVars, faultVars>>

\* return sched_rows, fare_rows: the list is exhausted (or was empty or None);
\* after outboundFlights the worker parses returnFlights, after those it has
\* all_sched and all_fare.                        schedules.py:70-71, 104, 184-190
ParseReturn ==
    /\ pa_pc = "flight"
    /\ IF pa_dir = 1
       THEN /\ pa_dir' = 2 /\ pa_flights' = 0 /\ pa_pc' = "flight"
       ELSE /\ pa_pc' = "put" /\ UNCHANGED <<pa_dir, pa_flights>>
    /\ UNCHANGED <<pa_deps, pa_priced, pa_sched, pa_fare, pa_q>>
    /\ UNCHANGED <<pairVars, staleVars, retryVars, crawlVars, harvestVars, throttleVars,
                    sessionVars, planVars, storeVars, faultVars>>

\* if all_sched or all_fare: write_q.put((all_sched, all_fare))
\*                                                        schedules.py:191-192
WorkerEnqueue ==
    /\ pa_pc = "put"
    /\ pa_q' = IF pa_sched # <<>> \/ pa_fare # <<>>
               THEN Append(pa_q, <<pa_sched, pa_fare>>) ELSE pa_q
    /\ pa_pc' = "next"
    /\ UNCHANGED <<pa_dir, pa_flights, pa_deps, pa_priced, pa_sched, pa_fare>>
    /\ UNCHANGED <<pairVars, staleVars, retryVars, crawlVars, harvestVars, throttleVars,
                    sessionVars, planVars, storeVars, faultVars>>

\* C32: when an error is raised while the flight records of a response are
\* parsed, the rows parsed from that response before the error are put on the
\* write queue.
C32_PartialResultEnqueued ==
    (pa_pc = "raised" /\ (pa_sched # <<>> \/ pa_fare # <<>>))
        => \E k \in 1..Len(pa_q) : pa_q[k] = <<pa_sched, pa_fare>>

\* ========================================================== specifications
PairInit == PairStart /\ StaleIdle /\ RetryIdle /\ CrawlIdle /\ HarvestIdle /\ ThrottleIdle
    /\ SessionIdle /\ PlanIdle /\ StoreIdle /\ FaultIdle /\ ParseIdle
PairNext == PairCall
SpecPair == PairInit /\ [][PairNext]_vars

StaleInit == StaleStart /\ PairIdle /\ RetryIdle /\ CrawlIdle /\ HarvestIdle /\ ThrottleIdle
    /\ SessionIdle /\ PlanIdle /\ StoreIdle /\ FaultIdle /\ ParseIdle
StaleNext == StaleSelect \/ StalePlan
SpecStale == StaleInit /\ [][StaleNext]_vars

RetryInit == RetryStart /\ PairIdle /\ StaleIdle /\ CrawlIdle /\ HarvestIdle /\ ThrottleIdle
    /\ SessionIdle /\ PlanIdle /\ StoreIdle /\ FaultIdle /\ ParseIdle
RetryNext == ClientBegin \/ PostAttempt \/ GetAttempt \/ NextCall
SpecRetry == RetryInit /\ [][RetryNext]_vars

Init == CrawlStart /\ PairIdle /\ StaleIdle /\ RetryIdle /\ HarvestIdle /\ ThrottleIdle
    /\ SessionIdle /\ PlanIdle /\ StoreIdle /\ FaultIdle /\ ParseIdle
Next ==
    \/ OrchStart
    \/ OrchSubmit
    \/ \E i \in WorkerIds : WorkerFetch(i)
    \/ \E i \in WorkerIds : WorkerPut(i)
    \/ \E i \in WorkerIds : WorkerFinish(i)
    \/ WriterStep
    \/ OrchPoolExit
    \/ OrchPutSentinel
    \/ OrchJoinCommit
    \/ ProgressPoll
Spec == Init /\ [][Next]_vars

\* A crawl run with an interrupt of the main thread or a failing store
\* statement.
FaultNext ==
    \/ Next
    \/ WriterBeginBatch
    \/ WriterEndBatch
    \/ WriterRaise
    \/ Interrupt
    \/ PoolShutdown
    \/ HandlerCommit
    \/ HandlerSummary
    \/ HandlerClose
SpecFault == Init /\ [][FaultNext]_vars

\* The threads are scheduled fairly: a thread that can take a step takes it.
Fairness ==
    /\ WF_vars(OrchStart) /\ WF_vars(OrchSubmit)
    /\ \A i \in WorkerIds :
          WF_vars(WorkerFetch(i)) /\ WF_vars(WorkerPut(i)) /\ WF_vars(WorkerFinish(i))
    /\ WF_vars(WriterStep)
    /\ WF_vars(OrchPoolExit) /\ WF_vars(OrchPutSentinel) /\ WF_vars(OrchJoinCommit)
\* Runs of one window per pair: the windows only multiply the tasks of a chunk.
LiveInit == Init /\ num_windows = 1
LiveSpec == LiveInit /\ [][Next]_vars /\ Fairness

ThrottleInit == ThrottleStart /\ PairIdle /\ StaleIdle /\ RetryIdle /\ CrawlIdle /\ HarvestIdle
    /\ SessionIdle /\ PlanIdle /\ StoreIdle /\ FaultIdle /\ ParseIdle
ThrottleNext ==
    \/ Tick
    \/ \E i \in WorkerIds : ThrottleEnter(i)
    \/ \E i \in WorkerIds : ThrottleMeasure(i)
    \/ \E i \in WorkerIds : ThrottleWake(i)
    \/ \E i \in WorkerIds : ThrottleStamp(i)
    \/ \E i \in WorkerIds : SendRequest(i)
    \/ \E i \in WorkerIds : BackoffWake(i)
SpecThrottle == ThrottleInit /\ [][ThrottleNext]_vars

StoreInit == StoreStart /\ PairIdle /\ StaleIdle /\ RetryIdle /\ CrawlIdle
    /\ HarvestIdle /\ ThrottleIdle /\ SessionIdle /\ PlanIdle /\ FaultIdle /\ ParseIdle
StoreNext == StoreUpsert
SpecStore == StoreInit /\ [][StoreNext]_vars

PlanInit == PlanStart /\ PairIdle /\ StaleIdle /\ RetryIdle /\ CrawlIdle
    /\ HarvestIdle /\ ThrottleIdle /\ SessionIdle /\ StoreIdle /\ FaultIdle /\ ParseIdle
PlanNext == Plan
SpecPlan == PlanInit /\ [][PlanNext]_vars

SessionInit == SessionStart /\ PairIdle /\ StaleIdle /\ RetryIdle /\ CrawlIdle
    /\ HarvestIdle /\ ThrottleIdle /\ PlanIdle /\ StoreIdle /\ FaultIdle /\ ParseIdle
SessionNext ==
    \/ \E i \in WorkerIds : SessionBegin(i)
    \/ \E i \in WorkerIds : SessionAttempt(i)
SpecSession == SessionInit /\ [][SessionNext]_vars

ParseInit == ParseStart /\ PairIdle /\ StaleIdle /\ RetryIdle /\ CrawlIdle /\ HarvestIdle
    /\ ThrottleIdle /\ SessionIdle /\ PlanIdle /\ StoreIdle /\ FaultIdle
ParseNext == ParseFlight \/ ParseDeparture \/ ParseFlightDone \/ ParseReturn \/ WorkerEnqueue
SpecParse == ParseInit /\ [][ParseNext]_vars

HarvestInit == HarvestStart /\ PairIdle /\ StaleIdle /\ RetryIdle /\ CrawlIdle /\ ThrottleIdle
    /\ SessionIdle /\ PlanIdle /\ StoreIdle /\ FaultIdle /\ ParseIdle
HarvestNext == HarvestBegin \/ HarvestTask \/ HarvestEnd
SpecHarvest == HarvestInit /\ [][HarvestNext]_vars

====
